---- MODULE Spec2Model ----
(***************************************************************************)
(* Model of the openfairdb place-revision-review engine, its use-case      *)
(* layer (tag normalisation, tag ownership, create/update/review, events), *)
(* the duplicate detector, the search, bbox subscriptions, the flow that   *)
(* creates events, the event repository, the user tokens, the roles of     *)
(* users, the registration types of events, the counts of places and tags, *)
(* pending authorizations and the command that geocodes the addresses of   *)
(* events.                                                                 *)
(*                                                                         *)
(* Strings are sequences of one-character strings, so that trimming,       *)
(* splitting and comparing are computed character by character.            *)
(***************************************************************************)
EXTENDS Integers, Sequences, FiniteSets, TLC

VARIABLES db, last, lock, pc, req, storable, outcome, dupPlaces, dupResult,
          entryIndex, eventIndex, notified

vars == <<db, last, lock, pc, req, storable, outcome, dupPlaces, dupResult,
          entryIndex, eventIndex, notified>>

(***************************************************************************)
(* Bounds of the model.                                                    *)
(***************************************************************************)
\* largest number of rows of the place_revision table
MaxRevisionRows == 2
\* largest number of review rows that review_places has added
MaxReviews == 2
\* largest number of rows of the events table
MaxEvents == 1
\* largest number of places handed to the duplicate detector
MaxDupPlaces == 3

(***************************************************************************)
(* Characters and strings.                                                 *)
(***************************************************************************)

\* byte value of the characters the model uses (the order of str::cmp)
CharCode(c) ==
  CASE c = "\t" -> 9
    [] c = " "  -> 32
    [] c = "#"  -> 35
    [] c = "0"  -> 48
    [] c = "1"  -> 49
    [] c = "9"  -> 57
    [] c = "a"  -> 97
    [] c = "b"  -> 98
    [] c = "c"  -> 99
    [] c = "o"  -> 111
    [] c = "x"  -> 120
    [] OTHER    -> 122

\* char::is_whitespace, as used by str::trim and str::split_whitespace
IsWhitespace(c) == c \in {" ", "\t"}

RECURSIVE StrLess(_, _)
\* lexicographic order of two strings (Ord for String)
StrLess(s, t) ==
  IF t = <<>> THEN FALSE
  ELSE IF s = <<>> THEN TRUE
  ELSE IF CharCode(Head(s)) # CharCode(Head(t))
       THEN CharCode(Head(s)) < CharCode(Head(t))
       ELSE StrLess(Tail(s), Tail(t))

StrLeq(s, t) == s = t \/ StrLess(s, t)

RECURSIVE TrimStart(_)
TrimStart(s) ==
  IF s # <<>> /\ IsWhitespace(Head(s)) THEN TrimStart(Tail(s)) ELSE s

RECURSIVE TrimEnd(_)
TrimEnd(s) ==
  IF s # <<>> /\ IsWhitespace(s[Len(s)])
  THEN TrimEnd(SubSeq(s, 1, Len(s) - 1)) ELSE s

\* str::trim
Trim(s) == TrimEnd(TrimStart(s))

RECURSIVE SplitOn(_, _, _)
\* str::split(sep): the pieces between the separators, empty pieces included;
\* cur is the piece being collected
SplitOn(s, sep, cur) ==
  IF s = <<>> THEN <<cur>>
  ELSE IF Head(s) = sep THEN <<cur>> \o SplitOn(Tail(s), sep, <<>>)
  ELSE SplitOn(Tail(s), sep, Append(cur, Head(s)))

Split(s, sep) == SplitOn(s, sep, <<>>)

\* str::replace(c, "")
RemoveChar(s, c) == SelectSeq(s, LAMBDA x : x # c)

RECURSIVE InsertSorted(_, _)
InsertSorted(x, xs) ==
  IF xs = <<>> THEN <<x>>
  ELSE IF StrLeq(x, Head(xs)) THEN <<x>> \o xs
  ELSE <<Head(xs)>> \o InsertSorted(x, Tail(xs))

RECURSIVE SortStrings(_)
\* slice::sort_unstable on a Vec<String>
SortStrings(xs) ==
  IF xs = <<>> THEN <<>> ELSE InsertSorted(Head(xs), SortStrings(Tail(xs)))

RECURSIVE Dedup(_)
\* Vec::dedup: removes consecutive repeated elements
Dedup(xs) ==
  IF Len(xs) < 2 THEN xs
  ELSE IF xs[1] = xs[2] THEN Dedup(Tail(xs))
  ELSE <<xs[1]>> \o Dedup(Tail(xs))

Range(xs) == {xs[i] : i \in 1..Len(xs)}

\* the filter_map of both passes: trim, drop the tag when nothing is left
TrimNonEmpty(xs) ==
  SelectSeq([i \in 1..Len(xs) |-> Trim(xs[i])], LAMBDA t : t # <<>>)

SplitSpace(t) == Split(t, " ")

RECURSIVE SplitAndFlatten(_)
\* map(|t| t.split(' ')).flatten()
SplitAndFlatten(xs) ==
  IF xs = <<>> THEN <<>> ELSE SplitSpace(Head(xs)) \o SplitAndFlatten(Tail(xs))

\* variant: only the first "#" of a tag is removed
RemoveHash_first(t) ==
  IF \E i \in 1..Len(t) : t[i] = "#"
  THEN SubSeq(t, 1, (CHOOSE i \in 1..Len(t) :
                       t[i] = "#" /\ \A j \in 1..(i - 1) : t[j] # "#") - 1)
       \o SubSeq(t, 1 + (CHOOSE i \in 1..Len(t) :
                           t[i] = "#" /\ \A j \in 1..(i - 1) : t[j] # "#"), Len(t))
  ELSE t

RemoveHash(t) == RemoveChar(t, "#")

\* map(|t| t.replace("#", ""))
RemoveHashes(xs) == [i \in 1..Len(xs) |-> RemoveHash(xs[i])]

\* usecases::prepare_tag_list
prepare_tag_list(tags) ==
  Dedup(SortStrings(
    TrimNonEmpty(RemoveHashes(SplitAndFlatten(TrimNonEmpty(tags))))))


(***************************************************************************)
(* Values of the entities.                                                 *)
(***************************************************************************)
\* ReviewStatus as persisted (ReviewStatusPrimitive)
Created == 0
Confirmed == 1
Rejected == -1
Archived == -2

ReviewStatuses == {Created, Confirmed, Rejected, Archived}

\* Revision::initial(): the version prepare_new_entry gives a new entry
InitialRevision == 0

\* Option::None of a revision
NoRevision == -1

\* Revision::next()
RevisionNext(r) == r + 1

\* Option::None of an e-mail address, an organization, a context, a token
NoEmail == "no-email"
NoOrg == [id |-> "no-org", owned_tags |-> <<>>]
NoText == "none"
NoToken == "no-token"

PlaceIds == {"p1", "p2"}
Licenses == {"CC0-1.0", "ODbL-1.0"}

\* the addresses a request can name: a registered user and an unknown one
Emails == {"u1@x.org", "ghost@x.org"}

\* the organizations of the model: org1 owns the tag "o", org2 owns no tag
OrgTag == <<"o">>
Orgs == { [id |-> "org1", name |-> "one", api_token |-> "token1",
           owned_tags |-> <<OrgTag>>],
          [id |-> "org2", name |-> "two", api_token |-> "token2",
           owned_tags |-> <<>>] }

\* the bearer tokens a request can carry; "token0" belongs to no organization
Tokens == {NoToken, "token0", "token1", "token2"}

\* the tag lists a request can carry (before normalisation)
TagInputs ==
  { << <<" ", "#", "a">>, <<"a">>, <<"a", "\t", "b">> >>,
    << <<"#", "o", " ">> >> }

SetMin(S) == CHOOSE x \in S : \A y \in S : x <= y
SetMax(S) == CHOOSE x \in S : \A y \in S : y <= x

(***************************************************************************)
(* The database: one record of tables; a table with a rowid is a sequence  *)
(* and the rowid is the index. The rows of place_revision_review are kept  *)
(* per parent revision row, each group in rowid order.                     *)
(***************************************************************************)
\* the roles of a user
Guest == "Guest"
User == "User"
Scout == "Scout"
Admin == "Admin"

\* Role: the roles in the order of their declaration, which is the order the
\* derived comparison of two roles uses
role_rank(role) ==
  CASE role = Guest -> 0
    [] role = User  -> 1
    [] role = Scout -> 2
    [] role = Admin -> 3

InitDb ==
  [ place                 |-> <<>>,
    place_revision        |-> <<>>,
    place_revision_review |-> <<>>,
    place_revision_tag    |-> <<>>,
    tags                  |-> {},
    users                 |-> << [email |-> "u1@x.org", email_confirmed |-> TRUE,
                                 role |-> User] >>,
    organizations         |-> {[id |-> "org2", name |-> "two", api_token |-> "token2"]},
    org_tag_relations     |-> <<>>,
    pending_authorizations |-> <<>>,
    events                |-> <<>>,
    event_tags            |-> <<>>,
    bbox_subscriptions    |-> <<>>,
    user_tokens           |-> <<>> ]

Result(err, d) == [err |-> err, db |-> d]

\* rowid (0: no such row) and current revision of a place
resolve_place_rowid(d, id) ==
  LET rows == {i \in 1..Len(d.place) : d.place[i].id = id}
  IN  IF rows = {} THEN 0 ELSE SetMin(rows)

\* rowid of the user with this e-mail address (0: no such row)
resolve_user_created_by_email(d, email) ==
  LET rows == {i \in 1..Len(d.users) : d.users[i].email = email}
  IN  IF rows = {} THEN 0 ELSE SetMin(rows)

\* variant: the UPDATE leaves current_rev as it is
update_current_rev_kept(d, rowid, old, new) == d

\* UPDATE place SET current_rev = new WHERE rowid = rowid AND current_rev = old
update_current_rev(d, rowid, old, new) ==
  [d EXCEPT !.place =
     [i \in 1..Len(d.place) |->
        IF i = rowid /\ d.place[i].current_rev = old
        THEN [d.place[i] EXCEPT !.current_rev = new]
        ELSE d.place[i]]]

\* variant: the submitted revision is not compared with the stored one
revision_follows_any(revision, place) == TRUE

\* the version check of into_new_place_revision: the submitted revision is
\* the successor of the stored one
revision_follows(revision, place) == RevisionNext(revision) = place.revision

\* variant: an update writes the license of the submitted place as well
into_place_row_relicensed(d, place) ==
  IF place.revision = InitialRevision
  THEN LET d1 == [d EXCEPT !.place = Append(@,
                    [id |-> place.id, license |-> place.license,
                     current_rev |-> place.revision])]
       IN  [err |-> "Ok", db |-> d1, rowid |-> resolve_place_rowid(d1, place.id)]
  ELSE LET rowid == resolve_place_rowid(d, place.id) IN
       IF rowid = 0 THEN [err |-> "NotFound", db |-> d, rowid |-> 0]
       ELSE LET revision == d.place[rowid].current_rev IN
            IF ~ revision_follows(revision, place)
            THEN [err |-> "InvalidVersion", db |-> d, rowid |-> rowid]
            ELSE [err |-> "Ok",
                  db |-> [d EXCEPT !.place[rowid] =
                            [@ EXCEPT !.current_rev = place.revision,
                                      !.license = place.license]],
                  rowid |-> rowid]

\* the place row of into_new_place_revision: inserted for the initial
\* revision, otherwise checked against the submitted revision and advanced
into_place_row(d, place) ==
  IF place.revision = InitialRevision
  THEN LET d1 == [d EXCEPT !.place = Append(@,
                    [id |-> place.id, license |-> place.license,
                     current_rev |-> place.revision])]
       IN  [err |-> "Ok", db |-> d1, rowid |-> resolve_place_rowid(d1, place.id)]
  ELSE LET rowid == resolve_place_rowid(d, place.id) IN
       IF rowid = 0 THEN [err |-> "NotFound", db |-> d, rowid |-> 0]
       ELSE LET revision == d.place[rowid].current_rev IN
            IF ~ revision_follows(revision, place)
            THEN [err |-> "InvalidVersion", db |-> d, rowid |-> rowid]
            ELSE [err |-> "Ok",
                  db |-> update_current_rev(d, rowid, revision, place.revision),
                  rowid |-> rowid]

\* the review rows of a revision row (none when the row has no review yet)
reviews_of(d, rev_id) ==
  IF rev_id \in DOMAIN d.place_revision_review
  THEN d.place_revision_review[rev_id] ELSE <<>>

\* INSERT INTO place_revision_review
insert_review_replacing(d, row) ==
  [d EXCEPT !.place_revision_review =
     [i \in DOMAIN @ \cup {row.parent_rowid} |->
        IF i = row.parent_rowid THEN <<row>> ELSE @[i]]]
insert_review(d, row) ==
  [d EXCEPT !.place_revision_review =
     [i \in DOMAIN @ \cup {row.parent_rowid} |->
        IF i = row.parent_rowid THEN Append(reviews_of(d, i), row)
        ELSE @[i]]]

NoRevisionRow ==
  [parent_rowid |-> 0, rev |-> NoRevision, created_by |-> 0,
   current_status |-> Created]

\* variant: the revision row inherits the status of the revision before it
new_place_revision_inherited(r, place, created_by) ==
  IF r.err # "Ok"
  THEN [err |-> r.err, db |-> r.db, new_place |-> NoRevisionRow, tags |-> <<>>]
  ELSE IF place.created_by # NoEmail /\ created_by = 0
  THEN [err |-> "NotFound", db |-> r.db,
        new_place |-> NoRevisionRow, tags |-> <<>>]
  ELSE [err |-> "Ok", db |-> r.db,
        new_place |-> [parent_rowid |-> r.rowid,
                       rev |-> place.revision,
                       created_by |-> created_by,
                       current_status |->
                         IF \E k \in 1..Len(r.db.place_revision) :
                              r.db.place_revision[k].parent_rowid = r.rowid
                         THEN r.db.place_revision[
                                CHOOSE k \in 1..Len(r.db.place_revision) :
                                  /\ r.db.place_revision[k].parent_rowid = r.rowid
                                  /\ \A m \in 1..Len(r.db.place_revision) :
                                       r.db.place_revision[m].parent_rowid = r.rowid
                                         => r.db.place_revision[m].rev
                                              <= r.db.place_revision[k].rev
                              ].current_status
                         ELSE Created],
        tags |-> place.tags]

\* the remainder of into_new_place_revision, r being the outcome for the
\* place row: the author is resolved and the revision row is built
new_place_revision(r, place, created_by) ==
  IF r.err # "Ok"
  THEN [err |-> r.err, db |-> r.db, new_place |-> NoRevisionRow, tags |-> <<>>]
  ELSE IF place.created_by # NoEmail /\ created_by = 0
  THEN [err |-> "NotFound", db |-> r.db,
        new_place |-> NoRevisionRow, tags |-> <<>>]
  ELSE [err |-> "Ok", db |-> r.db,
        new_place |-> [parent_rowid |-> r.rowid,
                       rev |-> place.revision,
                       created_by |-> created_by,
                       current_status |-> Created],
        tags |-> place.tags]

into_new_place_revision(d, place) ==
  new_place_revision(into_place_row(d, place), place,
    IF place.created_by # NoEmail
    THEN resolve_user_created_by_email(d, place.created_by) ELSE 0)

\* rowid of the revision row that has just been inserted
inserted_revision_rowid(d1, new_place) ==
  SetMin({i \in 1..Len(d1.place_revision) :
            /\ d1.place_revision[i].parent_rowid = new_place.parent_rowid
            /\ d1.place_revision[i].rev = new_place.rev})

\* the seed review and the tag rows of the revision row parent_rowid
insert_seed_review_and_tags(d1, parent_rowid, new_place, tags) ==
  [insert_review(d1, [parent_rowid |-> parent_rowid,
                      rev |-> InitialRevision,
                      created_by |-> new_place.created_by,
                      status |-> new_place.current_status,
                      context |-> NoText,
                      comment |-> "created"])
     EXCEPT !.place_revision_tag =
       @ \o [i \in 1..Len(tags) |-> [parent_rowid |-> parent_rowid, tag |-> tags[i]]]]

\* the inserts of create_or_update_place once the revision row is in d1
insert_into_revision_tables(d1, r) ==
  insert_seed_review_and_tags(d1, inserted_revision_rowid(d1, r.new_place),
                              r.new_place, r.tags)

\* create_or_update_place after into_new_place_revision has returned r
store_new_place_revision(r) ==
  IF r.err # "Ok" THEN Result(r.err, r.db)
  ELSE Result("Ok", insert_into_revision_tables(
                      [r.db EXCEPT !.place_revision = Append(@, r.new_place)], r))

\* PlaceRepo::create_or_update_place
create_or_update_place(d, place) ==
  store_new_place_revision(into_new_place_revision(d, place))


\* rowids of the current revisions: place_revision JOIN place
\* ON parent_rowid = place.rowid AND rev = current_rev, filtered by place id
current_revision_rowids(d, ids) ==
  {i \in 1..Len(d.place_revision) :
     \E j \in 1..Len(d.place) :
        /\ d.place_revision[i].parent_rowid = j
        /\ d.place_revision[i].rev = d.place[j].current_rev
        /\ d.place[j].id \in ids}

\* tags of a revision row, in table order
revision_tags(d, rowid) ==
  LET rows == SelectSeq(d.place_revision_tag, LAMBDA r : r.parent_rowid = rowid)
  IN  [i \in 1..Len(rows) |-> rows[i].tag]

\* load_place: the Place and review status of a joined revision row
load_place(d, rowid) ==
  LET rev == d.place_revision[rowid]
      pl  == d.place[rev.parent_rowid]
  IN  [id |-> pl.id, license |-> pl.license, revision |-> rev.rev,
       created_by |-> rev.created_by, tags |-> revision_tags(d, rowid),
       status |-> rev.current_status]

NoPlace ==
  [id |-> "", license |-> "", revision |-> NoRevision, created_by |-> 0,
   tags |-> <<>>, status |-> Created]

\* PlaceRepo::get_place
get_place(d, place_id) ==
  LET rows == current_revision_rowids(d, {place_id})
  IN  IF rows = {} THEN [err |-> "NotFound", place |-> NoPlace]
      ELSE [err |-> "Ok", place |-> load_place(d, SetMin(rows))]

\* SELECT max(rev) of the review rows of a revision
max_review_rev(d, rev_id) ==
  LET revs == {r.rev : r \in Range(reviews_of(d, rev_id))}
  IN  IF revs = {} THEN NoRevision ELSE SetMax(revs)

\* variant: the UPDATE leaves current_status as it is
update_current_status_kept(d, rev_id, status) == d

\* UPDATE place_revision SET current_status = status
\* WHERE rowid = rev_id AND current_status <> status
update_current_status(d, rev_id, status) ==
  [d EXCEPT !.place_revision =
     [i \in 1..Len(d.place_revision) |->
        IF i = rev_id /\ d.place_revision[i].current_status # status
        THEN [d.place_revision[i] EXCEPT !.current_status = status]
        ELSE d.place_revision[i]]]

RECURSIVE review_loop(_, _, _, _, _, _)
\* the loop of review_places over the selected revision rows
review_loop(d, rev_ids, status, changed_by, log, total) ==
  IF rev_ids = {} THEN [err |-> "Ok", db |-> d, count |-> total]
  ELSE
    LET rev_id == SetMin(rev_ids)
        update_count ==
          IF d.place_revision[rev_id].current_status # status THEN 1 ELSE 0
        d1 == update_current_status(d, rev_id, status)
    IN  IF update_count > 0
        THEN LET prev_rev == max_review_rev(d1, rev_id) IN
             IF prev_rev = NoRevision
             THEN [err |-> "NotFound", db |-> d1, count |-> total]
             ELSE LET new_review == [parent_rowid |-> rev_id,
                                     rev |-> RevisionNext(prev_rev),
                                     created_by |-> changed_by,
                                     status |-> status,
                                     context |-> log.context,
                                     comment |-> log.comment]
                      d2 == insert_review(d1, new_review)
                  IN  review_loop(d2, rev_ids \ {rev_id}, status, changed_by,
                                  log, total + update_count)
        ELSE review_loop(d1, rev_ids \ {rev_id}, status, changed_by, log, total)

\* variant: the join does not ask for the current revision
review_selection_any_revision(d, ids, status) ==
  {i \in 1..Len(d.place_revision) :
     /\ d.place[d.place_revision[i].parent_rowid].id \in ids
     /\ d.place_revision[i].current_status # status}

\* the revision rows review_places selects: current revisions of the listed
\* places whose status differs from the new one
review_selection(d, ids, status) ==
  {i \in current_revision_rowids(d, ids) :
     d.place_revision[i].current_status # status}

\* PlaceRepo::review_places
review_places(d, ids, status, log) ==
  LET rev_ids == review_selection(d, ids, status)
      changed_by ==
        IF log.by # NoEmail THEN resolve_user_created_by_email(d, log.by) ELSE 0
  IN  IF log.by # NoEmail /\ changed_by = 0
      THEN [err |-> "NotFound", db |-> d, count |-> 0]
      ELSE review_loop(d, rev_ids, status, changed_by, log, 0)

(***************************************************************************)
(* Tag ownership.                                                          *)
(***************************************************************************)
\* OrganizationGateway::create_org
create_org(d, o) ==
  [d EXCEPT !.organizations =
              @ \cup {[id |-> o.id, name |-> o.name, api_token |-> o.api_token]},
            !.org_tag_relations =
              @ \o [i \in 1..Len(o.owned_tags) |->
                      [org_id |-> o.id, tag_id |-> o.owned_tags[i]]]]

\* OrganizationGateway::get_all_tags_owned_by_orgs
get_all_tags_owned_by_orgs(d) ==
  Dedup([i \in 1..Len(d.org_tag_relations) |-> d.org_tag_relations[i].tag_id])

\* OrganizationGateway::get_org_by_api_token (NoOrg: not found)
get_org_by_api_token(d, token) ==
  IF \E o \in d.organizations : o.api_token = token
  THEN LET o == CHOOSE o \in d.organizations : o.api_token = token
           rels == SelectSeq(d.org_tag_relations, LAMBDA r : r.org_id = o.id)
       IN  [id |-> o.id, owned_tags |-> [i \in 1..Len(rels) |-> rels[i].tag_id]]
  ELSE NoOrg

RECURSIVE count_owned_tags_lenient(_, _, _, _)
\* variant: an owned tag is refused only to another organization, not to a
\* request without organization
count_owned_tags_lenient(owned_tags, tags, org, count) ==
  IF tags = <<>> THEN count
  ELSE IF Head(tags) \in Range(owned_tags)
       THEN IF org = NoOrg \/ Head(tags) \in Range(org.owned_tags)
            THEN count_owned_tags_lenient(owned_tags, Tail(tags), org, count + 1)
            ELSE -1
       ELSE count_owned_tags_lenient(owned_tags, Tail(tags), org, count)

RECURSIVE count_owned_tags(_, _, _, _)
\* the loop of check_and_count_owned_tags; count -1 stands for Err(OwnedTag)
count_owned_tags(owned_tags, tags, org, count) ==
  IF tags = <<>> THEN count
  ELSE IF Head(tags) \in Range(owned_tags)
       THEN IF org # NoOrg /\ Head(tags) \in Range(org.owned_tags)
            THEN count_owned_tags(owned_tags, Tail(tags), org, count + 1)
            ELSE -1
       ELSE count_owned_tags(owned_tags, Tail(tags), org, count)

\* the result of check_and_count_owned_tags for the count n of its loop
owned_tags_result(n) ==
  IF n < 0 THEN [err |-> "OwnedTag", count |-> 0]
  ELSE [err |-> "Ok", count |-> n]

\* usecases::check_and_count_owned_tags
check_and_count_owned_tags(d, tags, org) ==
  owned_tags_result(count_owned_tags(get_all_tags_owned_by_orgs(d), tags, org, 0))

\* tags of xs that are not in ys, in the order of xs
TagsNotIn(xs, ys) == SelectSeq(xs, LAMBDA t : t \notin Range(ys))

\* authorize_editing for the tags the update adds or removes, r being the
\* outcome of the check of these tags
authorize_changed(d, changed, r) ==
  IF r.err # "Ok" THEN [err |-> r.err, auth_org_ids |-> {}]
  ELSE [err |-> "Ok",
        auth_org_ids |->
          {d.org_tag_relations[i].org_id :
             i \in {k \in 1..Len(d.org_tag_relations) :
                      d.org_tag_relations[k].tag_id \in Range(changed)}}]

\* authorization::moderated_tag::authorize_editing: the owned tags that the
\* update adds or removes need the organization; the result names the
\* organizations that have to authorize the change
authorize_editing(d, old_tags, new_tags, org) ==
  authorize_changed(d, TagsNotIn(new_tags, old_tags) \o TagsNotIn(old_tags, new_tags),
    check_and_count_owned_tags(d,
      TagsNotIn(new_tags, old_tags) \o TagsNotIn(old_tags, new_tags), org))

\* Db::create_tag_if_it_does_not_exist for every tag of a list
create_tags(d, tags) == [d EXCEPT !.tags = @ \cup Range(tags)]


(***************************************************************************)
(* Use cases for places.                                                   *)
(***************************************************************************)
NoStorable ==
  [place |-> NoPlace, auth_org_ids |-> {},
   last_authorized |-> [revision |-> NoRevision, review_status |-> Created]]

\* Activity::now: the reading of the clock is an input of the call, carried
\* by the request that names one (field now); the other requests read 0
now(e) == IF "now" \in DOMAIN e THEN e.now ELSE 0

\* the Storable of prepare_updated_place, auth being the outcome of
\* authorize_editing
updated_storable(old, place_id, e, updated_by, new_tags, auth) ==
  IF auth.err # "Ok" THEN [err |-> auth.err, storable |-> NoStorable]
  ELSE [err |-> "Ok",
        storable |->
          [place |-> [id |-> place_id,
                      license |-> old.place.license,
                      revision |-> e.version,
                      created_by |-> updated_by,
                      created_at |-> now(e),
                      tags |-> new_tags],
           auth_org_ids |-> auth.auth_org_ids,
           last_authorized |-> [revision |-> old.place.revision,
                                review_status |-> old.place.status]]]

\* prepare_updated_place once the tags of the request are normalised
authorize_updated_place(d, old, place_id, e, updated_by, new_tags) ==
  updated_storable(old, place_id, e, updated_by, new_tags,
                   authorize_editing(d, old.place.tags, new_tags, NoOrg))

\* prepare_updated_place once the stored place has been read
check_updated_place(d, old, place_id, e, updated_by) ==
  IF old.err # "Ok" THEN [err |-> old.err, storable |-> NoStorable]
  ELSE IF RevisionNext(old.place.revision) # e.version
  THEN [err |-> "InvalidVersion", storable |-> NoStorable]
  ELSE authorize_updated_place(d, old, place_id, e, updated_by,
                               prepare_tag_list(e.tags))

\* usecases::prepare_updated_place; e is the UpdatePlace request
prepare_updated_place(d, place_id, e, updated_by) ==
  check_updated_place(d, get_place(d, place_id), place_id, e, updated_by)

\* authorization::place::add_pending_authorization
add_pending_authorization(d, auth_org_ids, pending) ==
  [d EXCEPT !.pending_authorizations =
     Append(@, [org_ids |-> auth_org_ids, place_id |-> pending.place_id,
                created_at |-> pending.created_at,
                last_authorized |-> pending.last_authorized])]

\* variant: the pending authorization is written for every stored update
authorize_stored_place_always(r, s) ==
  IF r.err # "Ok" THEN r
  ELSE Result("Ok", add_pending_authorization(r.db, s.auth_org_ids,
                      [place_id |-> s.place.id,
                       created_at |-> s.place.created_at,
                       last_authorized |-> s.last_authorized]))

\* store_updated_place after create_or_update_place has returned r
authorize_stored_place(r, s) ==
  IF r.err # "Ok" THEN r
  ELSE IF s.auth_org_ids # {}
  THEN Result("Ok", add_pending_authorization(r.db, s.auth_org_ids,
                      [place_id |-> s.place.id,
                       created_at |-> s.place.created_at,
                       last_authorized |-> s.last_authorized]))
  ELSE r

\* usecases::store_updated_place
store_updated_place(d, s) ==
  authorize_stored_place(
    create_or_update_place(create_tags(d, s.place.tags), s.place), s)

\* the place of prepare_new_entry, chk being the outcome of the check of
\* its tags
new_place_of(e, new_id, tags, chk) ==
  IF chk.err # "Ok" THEN [err |-> chk.err, place |-> NoPlace]
  ELSE [err |-> "Ok",
        place |-> [id |-> new_id, license |-> e.license,
                   revision |-> InitialRevision,
                   created_by |-> NoEmail, tags |-> tags]]

\* usecases::prepare_new_entry; e is the NewEntry request, new_id the fresh
\* uuid. The stored place starts at the initial revision.
prepare_new_place(d, e, new_id) ==
  new_place_of(e, new_id, prepare_tag_list(e.tags),
               check_and_count_owned_tags(d, prepare_tag_list(e.tags), NoOrg))

\* usecases::store_new_entry
store_new_place(d, place) ==
  create_or_update_place(create_tags(d, place.tags), place)

(***************************************************************************)
(* Use cases for events.                                                   *)
(***************************************************************************)
\* usecases::create_user_from_email: the user with this address, registered
\* when there is none yet
create_user_from_email(d, email) ==
  IF resolve_user_created_by_email(d, email) # 0 THEN d
  ELSE [d EXCEPT !.users = Append(@, [email |-> email, email_confirmed |-> FALSE,
                                      role |-> Guest])]

\* archived: NULL
NotArchived == 0

\* location: None
NoLocation == [lat |-> 999, lng |-> 999]

NoEvent == [id |-> "", tags |-> <<>>, created_by |-> NoEmail, pos |-> NoLocation]

\* registration: None
NoRegistration == "no-registration"

\* str::to_lowercase, for the registration strings of the requests
to_lowercase(s) ==
  CASE s = "eMail"     -> "email"
    [] s = "Telephone" -> "telephone"
    [] OTHER           -> s

\* RegistrationType::from_str, NoRegistration for its error
registration_type_from_str(s) ==
  CASE to_lowercase(s) = "email"     -> "Email"
    [] to_lowercase(s) = "telephone" -> "Phone"
    [] to_lowercase(s) = "homepage"  -> "Homepage"
    [] OTHER                         -> NoRegistration

\* contact is None unless the request has an address or a telephone number
no_contact(e) == e.email = NoEmail /\ e.telephone = NoText

\* homepage: an empty string counts as none
homepage_of(e) == IF e.homepage = "" THEN NoText ELSE e.homepage

\* variant: the registration is not compared with the contact data
registration_error_none(e) == "Ok"

\* the match on the registration of try_into_new_event: "Ok" or the
\* parameter error it returns
registration_error(e) ==
  IF e.registration = NoRegistration \/ e.registration = "" THEN "Ok"
  ELSE IF registration_type_from_str(e.registration) = NoRegistration
  THEN "RegistrationType"
  ELSE IF registration_type_from_str(e.registration) = "Email"
  THEN (IF no_contact(e) THEN "Contact"
        ELSE IF e.email = NoEmail THEN "Email" ELSE "Ok")
  ELSE IF registration_type_from_str(e.registration) = "Phone"
  THEN (IF no_contact(e) THEN "Contact"
        ELSE IF e.telephone = NoText THEN "Phone" ELSE "Ok")
  ELSE IF homepage_of(e) = NoText THEN "Url" ELSE "Ok"

\* the creator of the request is registered before the registration is
\* looked at
with_creator(d, e) ==
  IF e.created_by # NoEmail THEN create_user_from_email(d, e.created_by) ELSE d

\* the event of try_into_new_event, chk being the outcome of the check of
\* its tags; the creator and the tags are written while the event is built
new_event_of(d, e, new_id, tags, chk) ==
  IF chk.err # "Ok" THEN [err |-> chk.err, db |-> d, event |-> NoEvent]
  ELSE IF registration_error(e) # "Ok"
  THEN [err |-> registration_error(e), db |-> with_creator(d, e),
        event |-> NoEvent]
  ELSE [err |-> "Ok",
        db |-> create_tags(with_creator(d, e), tags),
        event |-> [id |-> new_id, tags |-> tags, created_by |-> e.created_by,
                   pos |-> e.pos]]

\* try_into_new_event once the organization of the token is known
new_event_for_org(d, e, new_id, org, tags) ==
  IF e.token # NoToken /\ org = NoOrg
  THEN [err |-> "Unauthorized", db |-> d, event |-> NoEvent]
  ELSE new_event_of(d, e, new_id, tags, check_and_count_owned_tags(d, tags, org))

\* usecases::try_into_new_event; e is the NewEvent request, new_id the fresh
\* uuid. The database is part of the result.
try_into_new_event(d, e, new_id) ==
  new_event_for_org(d, e, new_id,
    IF e.token # NoToken THEN get_org_by_api_token(d, e.token) ELSE NoOrg,
    prepare_tag_list(e.tags))

\* rowid of the event with this uid (0: no such row)
resolve_event_id(d, uid) ==
  LET rows == {i \in 1..Len(d.events) : d.events[i].uid = uid}
  IN  IF rows = {} THEN 0 ELSE d.events[SetMin(rows)].id

\* the rowid of the next row of the events table
next_event_id(d) ==
  IF d.events = <<>> THEN 1
  ELSE 1 + SetMax({d.events[i].id : i \in 1..Len(d.events)})

\* Option::None of the address of a location
NoAddress == "no-address"

\* the address of the location of an event; the events of the requests that
\* name no address have none
address_of(event) ==
  IF "address" \in DOMAIN event THEN event.address ELSE NoAddress

\* EventGateway::create_event
create_event(d, event) ==
  LET created_by ==
        IF event.created_by # NoEmail
        THEN resolve_user_created_by_email(d, event.created_by) ELSE 0
  IN  IF event.created_by # NoEmail /\ created_by = 0
      THEN Result("NotFound", d)
      ELSE LET id == next_event_id(d)
               d1 == [d EXCEPT !.events = Append(@,
                        [id |-> id, uid |-> event.id, created_by |-> created_by,
                         archived |-> NotArchived, pos |-> event.pos,
                         address |-> address_of(event)])]
               new == {t \in Range(event.tags) :
                         [event_id |-> id, tag |-> t] \notin Range(d.event_tags)}
               rows == SelectSeq(event.tags, LAMBDA t : t \in new)
           IN  Result("Ok", [d1 EXCEPT !.event_tags =
                 @ \o [i \in 1..Len(rows) |-> [event_id |-> id, tag |-> rows[i]]]])

\* create_new_event after try_into_new_event has returned r
create_checked_event(r) ==
  IF r.err # "Ok" THEN Result(r.err, r.db)
  ELSE IF r.event.created_by = NoEmail THEN Result("CreatorEmail", r.db)
  ELSE create_event(r.db, r.event)

\* usecases::create_new_event
create_new_event(d, e, new_id) ==
  create_checked_event(try_into_new_event(d, e, new_id))

(***************************************************************************)
(* Flows: a use case inside one transaction on the exclusive connection.   *)
(* A failing preparation is reported as it is; a failing store is rolled   *)
(* back and reported as the rollback error of the transaction.             *)
(***************************************************************************)
\* the transaction of a flow around the outcome r of a store: rolled back
\* and reported as its rollback error when the store has failed
commit_or_rollback(d, r) ==
  IF r.err # "Ok" THEN Result("Other", d) ELSE r

\* the database stays as it was when the repository call has failed
unchanged_on_error(d, r) ==
  IF r.err # "Ok" THEN [r EXCEPT !.db = d] ELSE r

store_prepared_update(d, p) ==
  IF p.err # "Ok" THEN Result(p.err, d)
  ELSE commit_or_rollback(d, store_updated_place(d, p.storable))

update_place_flow(d, place_id, e, updated_by) ==
  store_prepared_update(d, prepare_updated_place(d, place_id, e, updated_by))

store_prepared_place(d, p) ==
  IF p.err # "Ok" THEN Result(p.err, d)
  ELSE commit_or_rollback(d, store_new_place(d, p.place))

create_place_flow(d, e, new_id) ==
  store_prepared_place(d, prepare_new_place(d, e, new_id))

\* a prepared place handed to the repository inside a transaction
store_place_flow(d, place) ==
  unchanged_on_error(d, create_or_update_place(d, place))

review_places_flow(d, ids, status, log) ==
  unchanged_on_error(d, review_places(d, ids, status, log))


(***************************************************************************)
(* The requests of the model.                                              *)
(***************************************************************************)
Writers == {"w1", "w2"}

\* revisions a request can submit
Versions == InitialRevision..(InitialRevision + MaxRevisionRows)

\* the tag list every request of the revision engine carries
EngineTagInputs == { << <<" ", "#", "a">>, <<"a">> >> }

\* new places come with one license; StoredPlaces carries the other one too
NewPlaceRequests(tagInputs) == [tags : tagInputs, license : {"CC0-1.0"}]

UpdatePlaceRequests(tagInputs) == [version : Versions, tags : tagInputs]

\* places handed to the repository directly, revision and license arbitrary
StoredPlaces ==
  [id : PlaceIds, license : Licenses, revision : Versions \ {InitialRevision},
   created_by : {"u1@x.org"}, tags : {<< <<"a">> >>}]

ActivityLogs == [by : {"u1@x.org"}, context : {"ctx"}, comment : {"cmt"}]

NoLast == [op |-> "none", err |-> "Ok"]

NoRequest == [id |-> "p1", base |-> NoRevision, version |-> NoRevision]

Idle ==
  /\ lock = "free"
  /\ pc = [w \in Writers |-> "idle"]

UnchangedRace == UNCHANGED <<lock, pc, req, storable, outcome>>
UnchangedDup == UNCHANGED <<dupPlaces, dupResult>>
UnchangedIndex == UNCHANGED <<entryIndex, eventIndex, notified>>

Init ==
  /\ db = InitDb
  /\ last = NoLast
  /\ lock = "free"
  /\ pc = [w \in Writers |-> "idle"]
  /\ req = [w \in Writers |-> NoRequest]
  /\ storable = [w \in Writers |-> NoStorable]
  /\ outcome = [w \in Writers |-> "none"]
  /\ dupPlaces = <<>>
  /\ dupResult = <<>>
  /\ entryIndex = <<>>
  /\ eventIndex = {}
  /\ notified = <<>>

StoredIds(d) == {d.place[i].id : i \in 1..Len(d.place)}

\* Id::new(): an id no stored place has; ids are opaque, the model takes the
\* unused ids in the order p1, p2
FreshId(d) == IF "p1" \notin StoredIds(d) THEN "p1" ELSE "p2"

ReviewCount(d, rev_id) == Len(reviews_of(d, rev_id))

\* the tables stay within the bounds of the model
WithinBounds(d) ==
  /\ Len(d.place_revision) <= MaxRevisionRows
  /\ Cardinality({x \in (1..Len(d.place_revision)) \X (2..(MaxReviews + 2)) :
                    x[2] <= ReviewCount(d, x[1])}) <= MaxReviews
  /\ Len(d.events) <= MaxEvents

(***************************************************************************)
(* Actions of the revision engine: each is one flow.                       *)
(***************************************************************************)
CreatePlace(e) ==
  /\ Idle
  /\ PlaceIds \ StoredIds(db) # {}
  /\ \E r \in {create_place_flow(db, e, FreshId(db))} :
       /\ WithinBounds(r.db)
       /\ db' = r.db
       /\ last' = [op |-> "create", id |-> FreshId(db), e |-> e, err |-> r.err]
  /\ UnchangedRace
  /\ UnchangedDup
  /\ UnchangedIndex

UpdatePlace(place_id, e, updated_by) ==
  /\ Idle
  /\ \E r \in {update_place_flow(db, place_id, e, updated_by)} :
       /\ WithinBounds(r.db)
       /\ db' = r.db
       /\ last' = [op |-> "update", id |-> place_id, e |-> e,
                   by |-> updated_by, err |-> r.err]
  /\ UnchangedRace
  /\ UnchangedDup
  /\ UnchangedIndex

StorePlace(place) ==
  /\ Idle
  /\ \E r \in {store_place_flow(db, place)} :
       /\ WithinBounds(r.db)
       /\ db' = r.db
       /\ last' = [op |-> "store", place |-> place, err |-> r.err]
  /\ UnchangedRace
  /\ UnchangedDup
  /\ UnchangedIndex

ReviewPlaces(ids, status, log) ==
  /\ Idle
  /\ \E r \in {review_places_flow(db, ids, status, log)} :
       /\ WithinBounds(r.db)
       /\ db' = r.db
       /\ last' = [op |-> "review", ids |-> ids, status |-> status,
                   log |-> log, err |-> r.err, count |-> r.count]
  /\ UnchangedRace
  /\ UnchangedDup
  /\ UnchangedIndex

Next ==
  \/ \E e \in NewPlaceRequests(EngineTagInputs) : CreatePlace(e)
  \/ \E id \in PlaceIds, e \in UpdatePlaceRequests(EngineTagInputs),
        by \in Emails : UpdatePlace(id, e, by)
  \/ \E p \in StoredPlaces : StorePlace(p)
  \/ \E ids \in (SUBSET PlaceIds) \ {{}}, st \in ReviewStatuses, log \in ActivityLogs :
        ReviewPlaces(ids, st, log)

Spec == Init /\ [][Next]_vars


(***************************************************************************)
(* Properties of the revision engine (specification Spec).                 *)
(***************************************************************************)
\* current_rev of a stored place (NoRevision: the place is not stored)
CurrentRev(d, id) ==
  IF resolve_place_rowid(d, id) = 0 THEN NoRevision
  ELSE d.place[resolve_place_rowid(d, id)].current_rev

SameRows(d1, d2) ==
  /\ d1.place = d2.place
  /\ d1.place_revision = d2.place_revision
  /\ d1.place_revision_review = d2.place_revision_review
  /\ d1.place_revision_tag = d2.place_revision_tag

\* what C1 says of one attempt to store revision version of place id with
\* outcome err, leading from database d to database d2
StaleUpdateRejected(d, d2, id, version, err) ==
  /\ err = "Ok" => /\ CurrentRev(d, id) # NoRevision
                   /\ version = CurrentRev(d, id) + 1
  /\ CurrentRev(d, id) = NoRevision => err = "NotFound"
  /\ (CurrentRev(d, id) # NoRevision /\ version # CurrentRev(d, id) + 1)
        => err = "InvalidVersion"
  /\ err \in {"InvalidVersion", "NotFound"} => SameRows(d, d2)

\* C1: an update of a place is stored only when the submitted revision is
\* the stored current revision + 1; every other revision fails with
\* InvalidVersion (NotFound when the place is not stored) and then neither
\* current_rev nor the revision, review and tag rows change. Checked for the
\* update use case and for create_or_update_place itself.
C1_StaleRevisionRejected ==
  [][ /\ last'.op = "update" =>
           StaleUpdateRejected(db, db', last'.id, last'.e.version, last'.err)
      /\ last'.op = "store" =>
           /\ StaleUpdateRejected(db, db', last'.place.id,
                                  last'.place.revision, last'.err)
           /\ LET r == create_or_update_place(db, last'.place) IN
                /\ r.err = last'.err
                /\ r.err \in {"InvalidVersion", "NotFound"} => r.db = db
    ]_vars

C1_Witness ==
  /\ last.op = "update"
  /\ last.err = "InvalidVersion"
  /\ CurrentRev(db, last.id) = InitialRevision + 1
  /\ last.e.version = InitialRevision + 1

\* revision numbers stored for the place row j
StoredRevs(d, j) ==
  {d.place_revision[i].rev :
     i \in {k \in 1..Len(d.place_revision) : d.place_revision[k].parent_rowid = j}}

RowsOfRev(d, j, rev) ==
  {k \in 1..Len(d.place_revision) :
     d.place_revision[k].parent_rowid = j /\ d.place_revision[k].rev = rev}

CurrentRow(d, id) ==
  CHOOSE i \in 1..Len(d.place_revision) :
    /\ d.place_revision[i].parent_rowid = resolve_place_rowid(d, id)
    /\ d.place_revision[i].rev = CurrentRev(d, id)

\* the revision rows a review of ids with status has to change
RowsToChange(d, ids, status) ==
  {CurrentRow(d, id) : id \in {x \in ids \cap StoredIds(d) :
      d.place_revision[CurrentRow(d, x)].current_status # status}}

\* C5: review_places changes exactly the current revisions of the listed
\* places whose status differs from the new one: each gets the new status
\* and one more review row (next rev, the given context and comment); all
\* other rows stay; the count is the number of changed places, and the same
\* call repeated at once changes nothing and returns 0.
C5_ReviewChangesExactly ==
  [][ (last'.op = "review" /\ last'.err = "Ok") =>
        LET ids == last'.ids
            status == last'.status
            changed == RowsToChange(db, ids, status)
            again == review_places(db', ids, status, last'.log)
        IN  /\ last'.count = Cardinality(changed)
            /\ Len(db'.place_revision) = Len(db.place_revision)
            /\ db'.place = db.place
            /\ \A i \in 1..Len(db.place_revision) :
                 IF i \in changed
                 THEN /\ db'.place_revision[i] =
                           [db.place_revision[i] EXCEPT !.current_status = status]
                      /\ Len(reviews_of(db', i)) = Len(reviews_of(db, i)) + 1
                      /\ SubSeq(reviews_of(db', i), 1, Len(reviews_of(db, i)))
                           = reviews_of(db, i)
                      /\ LET new == reviews_of(db', i)[Len(reviews_of(db', i))] IN
                           /\ new.rev = max_review_rev(db, i) + 1
                           /\ new.status = status
                           /\ new.context = last'.log.context
                           /\ new.comment = last'.log.comment
                 ELSE /\ db'.place_revision[i] = db.place_revision[i]
                      /\ reviews_of(db', i) = reviews_of(db, i)
            /\ again.err = "Ok" /\ again.count = 0 /\ again.db = db'
    ]_vars

C5_Witness ==
  /\ last.op = "review"
  /\ last.err = "Ok"
  /\ last.ids = PlaceIds
  /\ last.count = 1
  /\ Len(db.place) = 2

\* C8: the license a place is read with never changes once the place is
\* stored, whatever license a later write carries.
C8_LicenseImmutable ==
  [][ \A id \in PlaceIds :
        get_place(db, id).err = "Ok" =>
          /\ get_place(db', id).err = "Ok"
          /\ get_place(db', id).place.license = get_place(db, id).place.license
    ]_vars

C8_Witness ==
  /\ last.op = "store"
  /\ last.err = "Ok"
  /\ get_place(db, last.place.id).err = "Ok"
  /\ get_place(db, last.place.id).place.revision = InitialRevision + 1
  /\ get_place(db, last.place.id).place.license # last.place.license


(***************************************************************************)
(* Two writers updating the same place (specification SpecRace). A writer  *)
(* reads the place, submits an update based on the revision it has read,   *)
(* and its request is served by the update flow: the flow takes the        *)
(* exclusive connection, prepares the update, stores it and commits.       *)
(***************************************************************************)
RaceTags == << <<"a">> >>

\* the client reads place p1 at its current revision and submits a revision
Submit(w, version) ==
  /\ pc[w] = "idle"
  /\ CurrentRev(db, "p1") # NoRevision
  /\ Len(db.place_revision) < MaxRevisionRows
  /\ req' = [req EXCEPT ![w] = [id |-> "p1", base |-> CurrentRev(db, "p1"),
                                version |-> version]]
  /\ pc' = [pc EXCEPT ![w] = "waiting"]
  /\ outcome' = [outcome EXCEPT ![w] = "none"]
  /\ UNCHANGED <<db, last, lock, storable>>
  /\ UnchangedDup
  /\ UnchangedIndex

\* connections.exclusive(), begin of the transaction, prepare_updated_place
BeginUpdate(w) ==
  /\ pc[w] = "waiting"
  /\ lock = "free"
  /\ \E p \in {prepare_updated_place(db, req[w].id,
                 [version |-> req[w].version, tags |-> RaceTags], "u1@x.org")} :
         IF p.err = "Ok"
         THEN /\ lock' = w
              /\ storable' = [storable EXCEPT ![w] = p.storable]
              /\ pc' = [pc EXCEPT ![w] = "prepared"]
              /\ UNCHANGED outcome
         ELSE /\ lock' = "free"
              /\ outcome' = [outcome EXCEPT ![w] = p.err]
              /\ pc' = [pc EXCEPT ![w] = "done"]
              /\ UNCHANGED storable
  /\ UNCHANGED <<db, last, req>>
  /\ UnchangedDup
  /\ UnchangedIndex

\* store_updated_place, commit or rollback, release of the connection
StoreUpdate(w) ==
  /\ pc[w] = "prepared"
  /\ lock = w
  /\ \E r \in {store_updated_place(db, storable[w])} :
       /\ db' = IF r.err = "Ok" THEN r.db ELSE db
       /\ outcome' = [outcome EXCEPT ![w] = IF r.err = "Ok" THEN "Ok" ELSE "Other"]
  /\ lock' = "free"
  /\ pc' = [pc EXCEPT ![w] = "done"]
  /\ storable' = [storable EXCEPT ![w] = NoStorable]
  /\ UNCHANGED <<last, req>>
  /\ UnchangedDup
  /\ UnchangedIndex

\* the response has been delivered; the writer may submit again
Retire(w) ==
  /\ pc[w] = "done"
  /\ pc' = [pc EXCEPT ![w] = "idle"]
  /\ UNCHANGED <<db, last, lock, req, storable, outcome>>
  /\ UnchangedDup
  /\ UnchangedIndex

NextRace ==
  \/ \E e \in NewPlaceRequests(EngineTagInputs) : CreatePlace(e)
  \/ \E w \in Writers, v \in Versions : Submit(w, v)
  \/ \E w \in Writers : BeginUpdate(w)
  \/ \E w \in Writers : StoreUpdate(w)
  \/ \E w \in Writers : Retire(w)

SpecRace == Init /\ [][NextRace]_vars

\* both writers have submitted revision base + 1 for the same base revision
\* and both requests have been answered
RaceOver ==
  /\ \A w \in Writers : pc[w] = "done" /\ req[w].version = req[w].base + 1
  /\ req["w1"].base = req["w2"].base

\* C2: of two writers that both submit revision N+1 of a place at revision
\* N, exactly one succeeds and the other fails with InvalidVersion; revision
\* N+1 is stored once and current_rev has advanced by one.
C2_OneWriterWins ==
  RaceOver =>
    /\ {outcome["w1"], outcome["w2"]} = {"Ok", "InvalidVersion"}
    /\ CurrentRev(db, "p1") = req["w1"].version
    /\ Cardinality(RowsOfRev(db, resolve_place_rowid(db, "p1"),
                             req["w1"].version)) = 1

C2_Witness ==
  /\ RaceOver
  /\ outcome["w1"] = "InvalidVersion"
  /\ outcome["w2"] = "Ok"


(***************************************************************************)
(* Tags and their owners (specification SpecOwned): places and events are  *)
(* written with every tag list of TagInputs, with and without the token of *)
(* an organization, while organizations register the tags they own.        *)
(***************************************************************************)
\* the requests of this specification: one license, the version that follows
\* the first revision
OwnedNewPlaceRequests == NewPlaceRequests(TagInputs)

OwnedUpdatePlaceRequests ==
  [version : {RevisionNext(InitialRevision)}, tags : TagInputs]

NewEventRequests ==
  [tags : TagInputs, created_by : {NoEmail, "ghost@x.org"}, token : Tokens,
   pos : {NoLocation}, registration : {NoRegistration}, email : {NoEmail},
   telephone : {NoText}, homepage : {NoText}]

\* Uuid::new_v4() for an event: the unused ids are taken in the order e1, e2
FreshEventId(d) ==
  IF "e1" \notin {d.events[i].uid : i \in 1..Len(d.events)} THEN "e1" ELSE "e2"

CreateOrg(o) ==
  /\ Idle
  /\ \A x \in db.organizations : x.id # o.id
  /\ db' = create_org(db, o)
  /\ last' = [op |-> "org", id |-> o.id, err |-> "Ok"]
  /\ UnchangedRace
  /\ UnchangedDup
  /\ UnchangedIndex

CreateEvent(e) ==
  /\ Idle
  /\ \E r \in {create_new_event(db, e, FreshEventId(db))} :
       /\ WithinBounds(r.db)
       /\ db' = r.db
       /\ last' = [op |-> "event", id |-> FreshEventId(db), e |-> e, err |-> r.err]
  /\ UnchangedRace
  /\ UnchangedDup
  /\ UnchangedIndex

NextOwned ==
  \/ \E o \in Orgs : CreateOrg(o)
  \/ \E e \in OwnedNewPlaceRequests : CreatePlace(e)
  \/ \E id \in PlaceIds, e \in OwnedUpdatePlaceRequests :
        UpdatePlace(id, e, "u1@x.org")
  \/ \E e \in NewEventRequests : CreateEvent(e)

SpecOwned == Init /\ [][NextOwned]_vars

\* the tags some organization owns
OwnedTags(d) ==
  {d.org_tag_relations[i].tag_id : i \in 1..Len(d.org_tag_relations)}

\* the tags the organization of a token owns (none without organization)
TagsOfToken(d, token) ==
  {d.org_tag_relations[i].tag_id :
     i \in {k \in 1..Len(d.org_tag_relations) :
              \E o \in d.organizations :
                 o.api_token = token /\ d.org_tag_relations[k].org_id = o.id}}

TokenKnown(d, token) == \E o \in d.organizations : o.api_token = token

\* the owned tags an update of place id to the tag list tags adds or removes
OwnedDelta(d, id, tags) ==
  LET old == Range(get_place(d, id).place.tags)
      new == Range(tags)
  IN  ((new \ old) \cup (old \ new)) \cap OwnedTags(d)

\* C6: a write that adds or removes an owned tag (update), or carries one
\* (new place, new event), succeeds only when the organization of the
\* request owns the tag; without organization, or with an organization that
\* does not own it, the write fails with OwnedTag and stores no revision
\* and no event.
C6_OwnedTagsNeedOwner ==
  [][ /\ last'.op = "update" =>
           LET delta == OwnedDelta(db, last'.id, prepare_tag_list(last'.e.tags)) IN
             /\ last'.err = "Ok" => delta = {}
             /\ (/\ get_place(db, last'.id).err = "Ok"
                 /\ last'.e.version = CurrentRev(db, last'.id) + 1
                 /\ delta # {})
                  => last'.err = "OwnedTag" /\ SameRows(db, db')
      /\ last'.op = "create" =>
           LET owned == Range(prepare_tag_list(last'.e.tags)) \cap OwnedTags(db) IN
             /\ last'.err = "Ok" => owned = {}
             /\ owned # {} => last'.err = "OwnedTag" /\ SameRows(db, db')
      /\ last'.op = "event" =>
           LET owned == Range(prepare_tag_list(last'.e.tags)) \cap OwnedTags(db)
               mine  == TagsOfToken(db, last'.e.token)
           IN
             /\ last'.err = "Ok" => owned \subseteq mine
             /\ (/\ ~ (owned \subseteq mine)
                 /\ last'.e.token = NoToken \/ TokenKnown(db, last'.e.token))
                  => /\ last'.err = "OwnedTag"
                     /\ db'.events = db.events
                     /\ db'.event_tags = db.event_tags
    ]_vars

\* an update that removes an owned tag from a place has just been refused
C6_Witness ==
  /\ last.op = "update"
  /\ last.err = "OwnedTag"
  /\ OrgTag \in Range(get_place(db, last.id).place.tags)
  /\ \E i \in 1..Len(db.events) :
       [event_id |-> i, tag |-> OrgTag] \in Range(db.event_tags)

IsNormalizedTag(t) ==
  /\ t # <<>>
  /\ \A i \in 1..Len(t) : t[i] # "#" /\ ~ IsWhitespace(t[i])

\* C7: every stored tag of a place is non-empty and has no '#' and no
\* whitespace character; the tag list of a revision is sorted and has no
\* duplicates.
C7_StoredTagsNormalized ==
  \A i \in 1..Len(db.place_revision) :
    LET tags == revision_tags(db, i) IN
      /\ \A k \in 1..Len(tags) : IsNormalizedTag(tags[k])
      /\ \A k \in 1..(Len(tags) - 1) : StrLess(tags[k], tags[k + 1])


(***************************************************************************)
(* The duplicate detector (usecases/find_duplicates.rs).  A place is its   *)
(* id, its title and its position; positions lie on one line and are given *)
(* in metres, NoPos is a position without valid coordinates.               *)
(***************************************************************************)
NoPos == -1

DUPLICATE_MAX_DISTANCE == 100

\* Option::None of a distance and of a duplicate type
NoDistance == -1
NoDuplicate == "None"

\* MapPoint::distance: None unless both positions are valid
distance(p1, p2) ==
  IF p1 = NoPos \/ p2 = NoPos THEN NoDistance
  ELSE IF p1 <= p2 THEN p2 - p1 ELSE p1 - p2

min(a, b) == IF a <= b THEN a ELSE b

min3(s, t, u) == IF s <= t THEN min(s, u) ELSE min(t, u)

\* s.chars().nth(i): the character at the 0-based index i, "" for None
nth(s, i) == IF i + 1 <= Len(s) THEN s[i + 1] ELSE ""

\* levenshtein_distance: the matrix d is filled column by column; the
\* substitution cost of cell (i, j) compares nth(i) with nth(j) as the code
\* does
levenshtein_distance(s, t) ==
  LET max_s == Len(s) + 1
      max_t == Len(t) + 1
      d[i \in 0..(max_s - 1), j \in 0..(max_t - 1)] ==
        IF j = 0 THEN i
        ELSE IF i = 0 THEN j
        ELSE LET substitution_cost == IF nth(s, i) = nth(t, j) THEN 0 ELSE 1
             IN  min3(d[i - 1, j] + 1, d[i, j - 1] + 1,
                      d[i - 1, j - 1] + substitution_cost)
  IN  d[max_s - 1, max_t - 1]

levenshtein_distance_small(s, t, max_dist) ==
  levenshtein_distance(s, t) <= max_dist

\* str::split_whitespace: the non-empty pieces between runs of whitespace
split_whitespace(s) ==
  SelectSeq(Split([i \in 1..Len(s) |-> IF IsWhitespace(s[i]) THEN " " ELSE s[i]],
                  " "),
            LAMBDA w : w # <<>>)

\* words_equal_except_k_words
words_equal_except_k_words(str1, str2, k) ==
  LET len1 == Len(split_whitespace(str1))
      len2 == Len(split_whitespace(str2))
  IN  IF len1 = 1 /\ len2 = 1 THEN FALSE
      ELSE LET s1 == IF len1 <= len2 THEN str1 ELSE str2
               s2 == IF len1 <= len2 THEN str2 ELSE str1
               set == Range(split_whitespace(s1))
               words2 == Split(s2, " ")
               diff == Cardinality({i \in 1..Len(words2) : words2[i] \notin set})
           IN  diff <= k

\* similar_title; max_percent_different is given in tenths (3 for 0.3), the
\* cast to usize truncates
similar_title(e1, e2, max_tenths_different, max_words_different) ==
  LET max_dist == (min(Len(e1.title), Len(e2.title)) * max_tenths_different) \div 10 + 1
  IN  \/ levenshtein_distance_small(e1.title, e2.title, max_dist)
      \/ words_equal_except_k_words(e1.title, e2.title, max_words_different)

\* variant: a distance that cannot be computed counts as near
in_close_proximity_unknown_near(e1, e2, max_dist) ==
  LET dist == distance(e1.pos, e2.pos) IN
  IF dist # NoDistance THEN dist <= max_dist ELSE TRUE

in_close_proximity(e1, e2, max_dist) ==
  LET dist == distance(e1.pos, e2.pos) IN
  IF dist # NoDistance THEN dist <= max_dist ELSE FALSE

is_duplicate(e1, e2) ==
  IF similar_title(e1, e2, 3, 0) /\ in_close_proximity(e1, e2, DUPLICATE_MAX_DISTANCE)
  THEN "SimilarChars"
  ELSE IF similar_title(e1, e2, 0, 2)
          /\ in_close_proximity(e1, e2, DUPLICATE_MAX_DISTANCE)
  THEN "SimilarWords"
  ELSE NoDuplicate

\* variant: no pair of the two loops is skipped
skip_pair_never(p1, p2) == FALSE

\* the `continue` of find_duplicates: p1.id >= p2.id
skip_pair(p1, p2) == ~ StrLess(p1.id, p2.id)

RECURSIVE find_duplicates_inner(_, _)
\* the inner loop of find_duplicates for one p1
find_duplicates_inner(p1, possible) ==
  IF possible = <<>> THEN <<>>
  ELSE LET p2 == Head(possible)
           t  == is_duplicate(p1, p2)
       IN  (IF ~ skip_pair(p1, p2) /\ t # NoDuplicate
            THEN << [id1 |-> p1.id, id2 |-> p2.id, type |-> t] >> ELSE <<>>)
           \o find_duplicates_inner(p1, Tail(possible))

RECURSIVE find_duplicates(_, _)
find_duplicates(places, possible_duplicate_places) ==
  IF places = <<>> THEN <<>>
  ELSE find_duplicates_inner(Head(places), possible_duplicate_places)
       \o find_duplicates(Tail(places), possible_duplicate_places)

(***************************************************************************)
(* Specification SpecDup: places are collected, the detector runs over the *)
(* collection against itself.                                              *)
(***************************************************************************)
DupIds == { <<"1", "0">>, <<"9">>, <<"a">>, <<"b">> }
DupPositions == {0, 100, 201, NoPos}
DupPlaces ==
  [id : DupIds, title : { <<"a", "b">> }, pos : DupPositions]
    \cup [id : DupIds, title : { <<"a", "c">> }, pos : {100}]

AddDupPlace(p) ==
  /\ Len(dupPlaces) < MaxDupPlaces
  /\ \A i \in 1..Len(dupPlaces) : dupPlaces[i].id # p.id
  /\ dupPlaces' = Append(dupPlaces, p)
  /\ dupResult' = <<>>
  /\ UNCHANGED <<db, last>>
  /\ UnchangedRace
  /\ UnchangedIndex

FindDuplicates ==
  /\ dupPlaces # <<>>
  /\ dupResult' = find_duplicates(dupPlaces, dupPlaces)
  /\ UNCHANGED <<db, last, dupPlaces>>
  /\ UnchangedRace
  /\ UnchangedIndex

NextDup ==
  \/ \E p \in DupPlaces : AddDupPlace(p)
  \/ FindDuplicates

SpecDup == Init /\ [][NextDup]_vars

\* C9: every result of find_duplicates over a collection against itself is
\* (id1, id2, type) with id1 < id2, and no unordered pair of places is
\* reported twice.
C9_PairsOrderedOnce ==
  /\ \A i \in 1..Len(dupResult) : StrLess(dupResult[i].id1, dupResult[i].id2)
  /\ \A i, j \in 1..Len(dupResult) :
       {dupResult[i].id1, dupResult[i].id2} = {dupResult[j].id1, dupResult[j].id2}
         => i = j

\* two pairs have been reported, the first of places that were collected
\* in descending order of their ids
C9_Witness ==
  /\ Len(dupResult) >= 2
  /\ Len(dupPlaces) >= 2
  /\ StrLess(dupPlaces[2].id, dupPlaces[1].id)
  /\ dupResult[1].id1 = dupPlaces[2].id
  /\ dupResult[1].id2 = dupPlaces[1].id

PlaceOfId(id) == CHOOSE p \in Range(dupPlaces) : p.id = id

\* C10: is_duplicate returns None for two places whose distance is unknown
\* or more than 100 m, whatever their titles; every reported pair has a
\* known distance of at most 100 m.
C10_FarPlacesNeverDuplicates ==
  /\ \A p1, p2 \in Range(dupPlaces) :
       LET dist == distance(p1.pos, p2.pos) IN
         (dist = NoDistance \/ dist > 100) => is_duplicate(p1, p2) = NoDuplicate
  /\ \A i \in 1..Len(dupResult) :
       LET dist == distance(PlaceOfId(dupResult[i].id1).pos,
                            PlaceOfId(dupResult[i].id2).pos)
       IN  dist # NoDistance /\ dist <= 100

\* three places with the same title: one pair exactly 100 m apart and
\* reported, one place 101 m from its neighbour or without position
C10_Witness ==
  /\ Len(dupResult) = 1
  /\ Len(dupPlaces) = 3
  /\ \A p \in Range(dupPlaces) : p.title = dupPlaces[1].title
  /\ distance(PlaceOfId(dupResult[1].id1).pos, PlaceOfId(dupResult[1].id2).pos) = 100
  /\ \E p \in Range(dupPlaces) : p.pos = NoPos \/ p.pos = 201


(***************************************************************************)
(* Search (specification SpecSearch): entries are added to the search      *)
(* index, searches run over a bounding box. Positions are whole degrees.   *)
(***************************************************************************)
MAX_INVISIBLE_RESULTS == 5

\* limit: None
NoLimit == -1

\* index_bbox: None
NoBbox == [sw |-> [lat |-> 0, lng |-> 0], ne |-> [lat |-> -1, lng |-> -1]]

\* InBBox::in_bbox for a position
in_bbox(pos, bbox) ==
  /\ bbox.sw.lat <= pos.lat /\ pos.lat <= bbox.ne.lat
  /\ bbox.sw.lng <= pos.lng /\ pos.lng <= bbox.ne.lng

\* filter::extend_bbox: a margin of a tenth of the extent on every side
extend_bbox(bbox) ==
  LET lat_ext == (bbox.ne.lat - bbox.sw.lat) \div 10
      lng_ext == (bbox.ne.lng - bbox.sw.lng) \div 10
  IN  [sw |-> [lat |-> bbox.sw.lat - lat_ext, lng |-> bbox.sw.lng - lng_ext],
       ne |-> [lat |-> bbox.ne.lat + lat_ext, lng |-> bbox.ne.lng + lng_ext]]

\* the bbox of the index query: the extended bbox when the request has
\* neither text nor tags, none otherwise
index_bbox(r) ==
  IF (r.text = NoText \/ r.text = <<>>) /\ r.tags = <<>>
  THEN extend_bbox(r.bbox) ELSE NoBbox

\* the first n elements of a sequence
take(xs, n) == SubSeq(xs, 1, min(n, Len(xs)))

\* EntryIndex::query_entries: the indexed entries inside the bbox of the
\* query, in the order of the index, at most limit of them
query_entries(index, bbox, limit) ==
  LET found == SelectSeq(index, LAMBDA e : bbox = NoBbox \/ in_bbox(e.pos, bbox))
  IN  IF limit = NoLimit THEN found ELSE take(found, limit)

\* an entry put into a list that is in descending order of rating, behind
\* the entries of the same rating
insert_by_avg_rating(sorted, e) ==
  LET before == {i \in 1..Len(sorted) : sorted[i].rating >= e.rating}
      n == IF before = {} THEN 0 ELSE SetMax(before)
  IN  SubSeq(sorted, 1, n) \o <<e>> \o SubSeq(sorted, n + 1, Len(sorted))

\* SortByAverageRating::sort_by_avg_rating: stable, descending
RECURSIVE sort_by_avg_rating(_)
sort_by_avg_rating(es) ==
  IF es = <<>> THEN <<>>
  ELSE insert_by_avg_rating(sort_by_avg_rating(SubSeq(es, 1, Len(es) - 1)),
                            es[Len(es)])

invisible_results_unbounded(entries, visible_bbox) ==
  SelectSeq(entries, LAMBDA x : ~in_bbox(x.pos, visible_bbox))
invisible_results(entries, visible_bbox) ==
  take(SelectSeq(entries, LAMBDA x : ~in_bbox(x.pos, visible_bbox)),
       MAX_INVISIBLE_RESULTS)

\* usecases::search
search(index, r, limit) ==
  LET entries == sort_by_avg_rating(query_entries(index, index_bbox(r), limit))
  IN  [visible |-> SelectSeq(entries, LAMBDA x : in_bbox(x.pos, r.bbox)),
       invisible |-> invisible_results(entries, r.bbox)]

\* largest number of entries of the search index
MaxIndexEntries == 6

SearchBbox == [sw |-> [lat |-> 0, lng |-> 0], ne |-> [lat |-> 10, lng |-> 10]]

\* the entries that are indexed: inside the bbox, in its margin, far away
IndexedEntries ==
  { [pos |-> [lat |-> 5, lng |-> 5], rating |-> 1],
    [pos |-> [lat |-> 5, lng |-> 5], rating |-> 2],
    [pos |-> [lat |-> 11, lng |-> 5], rating |-> 1],
    [pos |-> [lat |-> 5, lng |-> 20], rating |-> 2] }

SearchRequests ==
  [bbox : {SearchBbox}, text : {NoText, <<"a">>}, tags : {<<>>}]

SearchLimits == {NoLimit, 4}

\* EntryIndexer::add_or_update_entry for a new entry; its id is its rank
AddEntry(e) ==
  /\ Len(entryIndex) < MaxIndexEntries
  /\ entryIndex' = Append(entryIndex,
       [id |-> Len(entryIndex) + 1, pos |-> e.pos, rating |-> e.rating])
  /\ last' = NoLast
  /\ UNCHANGED <<db, eventIndex, notified>>
  /\ UnchangedRace
  /\ UnchangedDup

Search(r, limit) ==
  /\ entryIndex # <<>>
  /\ \E res \in {search(entryIndex, r, limit)} :
       last' = [op |-> "search", err |-> "Ok", r |-> r, limit |-> limit,
                visible |-> res.visible, invisible |-> res.invisible]
  /\ UNCHANGED <<db, entryIndex, eventIndex, notified>>
  /\ UnchangedRace
  /\ UnchangedDup

NextSearch ==
  \/ \E e \in IndexedEntries : AddEntry(e)
  \/ \E r \in SearchRequests, limit \in SearchLimits : Search(r, limit)

SpecSearch == Init /\ [][NextSearch]_vars

Descending(es) ==
  \A i, j \in 1..Len(es) : i < j => es[i].rating >= es[j].rating

IdsOf(es) == {es[i].id : i \in 1..Len(es)}

\* the results of the index for the last search, inside and outside the
\* requested bbox
IndexResults ==
  query_entries(entryIndex, index_bbox(last.r), last.limit)

Inside == {e \in Range(IndexResults) : in_bbox(e.pos, last.r.bbox)}

Outside == Range(IndexResults) \ Inside

\* C11: search returns (visible, invisible): visible holds exactly the
\* results of the index inside the requested bbox, invisible at most 5
\* results outside it, the first 5 in rating order; both lists are in
\* descending order of the average rating and share no entry.
C11_VisibleAndInvisible ==
  last.op = "search" =>
    /\ Range(last.visible) = Inside
    /\ Len(last.visible) = Cardinality(Inside)
    /\ Range(last.invisible) \subseteq Outside
    /\ Len(last.invisible) = Cardinality(Range(last.invisible))
    /\ Len(last.invisible) = min(MAX_INVISIBLE_RESULTS, Cardinality(Outside))
    /\ \A e \in Outside \ Range(last.invisible) :
         \A i \in 1..Len(last.invisible) : last.invisible[i].rating >= e.rating
    /\ Descending(last.visible)
    /\ Descending(last.invisible)
    /\ IdsOf(last.visible) \cap IdsOf(last.invisible) = {}

\* a search has found more than five entries outside the bbox: the five
\* returned start with a rating of 2 and an entry of rating 1 is left out,
\* while the index starts with an entry of rating 1
C11_Witness ==
  /\ last.op = "search"
  /\ Cardinality(Outside) > MAX_INVISIBLE_RESULTS
  /\ Len(last.invisible) = MAX_INVISIBLE_RESULTS
  /\ \E e \in Outside \ Range(last.invisible) : e.rating = 1
  /\ last.invisible[1].rating = 2
  /\ entryIndex[1].rating = 1


(***************************************************************************)
(* Users and bbox subscriptions (specification SpecSubs): users register,  *)
(* subscribe to a bounding box and unsubscribe.                            *)
(***************************************************************************)
\* UserGateway::create_user: the e-mail address of a user is unique
create_user(d, u) ==
  IF resolve_user_created_by_email(d, u.email) # 0 THEN Result("Other", d)
  ELSE Result("Ok", [d EXCEPT !.users = Append(@, u)])

\* validate::bbox
validate_bbox(bbox) == bbox.sw.lat <= bbox.ne.lat

\* Db::delete_bbox_subscriptions_by_email
delete_bbox_subscriptions_by_email_none(d, email) == d
delete_bbox_subscriptions_by_email(d, email) ==
  [d EXCEPT !.bbox_subscriptions =
     SelectSeq(@, LAMBDA s : s.user_id # resolve_user_created_by_email(d, email))]

\* Db::create_bbox_subscription
create_bbox_subscription(d, new) ==
  IF resolve_user_created_by_email(d, new.user_email) = 0 THEN Result("NotFound", d)
  ELSE Result("Ok", [d EXCEPT !.bbox_subscriptions = Append(@,
         [uid |-> new.id,
          user_id |-> resolve_user_created_by_email(d, new.user_email),
          bbox |-> new.bbox])])

\* Db::all_bbox_subscriptions: the rows joined with their users
all_bbox_subscriptions(d) ==
  [i \in 1..Len(d.bbox_subscriptions) |->
     [id |-> d.bbox_subscriptions[i].uid,
      user_email |-> d.users[d.bbox_subscriptions[i].user_id].email,
      bbox |-> d.bbox_subscriptions[i].bbox]]

\* usecases::unsubscribe_all_bboxes
unsubscribe_all_bboxes(d, user_email) ==
  Result("Ok", delete_bbox_subscriptions_by_email(d, user_email))

\* usecases::subscribe_to_bbox; new_id is the fresh id of the subscription
subscribe_to_bbox(d, user_email, bbox, new_id) ==
  IF ~validate_bbox(bbox) THEN Result("Bbox", d)
  ELSE create_bbox_subscription(
         delete_bbox_subscriptions_by_email(d, user_email),
         [id |-> new_id, user_email |-> user_email, bbox |-> bbox])

\* usecases::get_bbox_subscriptions
get_bbox_subscriptions(d, user_email) ==
  SelectSeq(all_bbox_subscriptions(d), LAMBDA s : s.user_email = user_email)

\* usecases::bbox_subscriptions_by_coordinate
bbox_subscriptions_by_coordinate(d, pos) ==
  SelectSeq(all_bbox_subscriptions(d), LAMBDA s : in_bbox(pos, s.bbox))

\* usecases::email_addresses_by_coordinate
email_addresses_by_coordinate(d, pos) ==
  [i \in 1..Len(bbox_subscriptions_by_coordinate(d, pos)) |->
     bbox_subscriptions_by_coordinate(d, pos)[i].user_email]

\* Id::new() for a subscription: the least number no stored subscription has
FreshSubscriptionId(d) ==
  SetMin((1..(Len(d.bbox_subscriptions) + 1))
           \ {d.bbox_subscriptions[i].uid : i \in 1..Len(d.bbox_subscriptions)})

Accounts == {"u1@x.org", "u2@x.org"}

\* the boxes users subscribe to: two that overlap, one with south and north
\* exchanged
SubscriptionBboxes ==
  { SearchBbox,
    [sw |-> [lat |-> 10, lng |-> 10], ne |-> [lat |-> 20, lng |-> 20]],
    [sw |-> [lat |-> 10, lng |-> 0], ne |-> [lat |-> 0, lng |-> 10]] }

CreateUser(email) ==
  /\ \E r \in {create_user(db, [email |-> email, email_confirmed |-> FALSE,
                                role |-> Guest])} :
       /\ db' = r.db
       /\ last' = [op |-> "user", email |-> email, err |-> r.err]
  /\ UNCHANGED <<entryIndex, eventIndex, notified>>
  /\ UnchangedRace
  /\ UnchangedDup

\* POST /subscribe-to-bbox
Subscribe(email, bbox) ==
  /\ \E r \in {subscribe_to_bbox(db, email, bbox, FreshSubscriptionId(db))} :
       /\ db' = r.db
       /\ last' = [op |-> "subscribe", email |-> email, bbox |-> bbox,
                   err |-> r.err]
  /\ UNCHANGED <<entryIndex, eventIndex, notified>>
  /\ UnchangedRace
  /\ UnchangedDup

\* DELETE /unsubscribe-all-bboxes
Unsubscribe(email) ==
  /\ \E r \in {unsubscribe_all_bboxes(db, email)} :
       /\ db' = r.db
       /\ last' = [op |-> "unsubscribe", email |-> email, err |-> r.err]
  /\ UNCHANGED <<entryIndex, eventIndex, notified>>
  /\ UnchangedRace
  /\ UnchangedDup

NextSubs ==
  \/ \E email \in Accounts : CreateUser(email)
  \/ \E email \in Accounts \cup {"ghost@x.org"}, bbox \in SubscriptionBboxes :
        Subscribe(email, bbox)
  \/ \E email \in Accounts \cup {"ghost@x.org"} : Unsubscribe(email)

SpecSubs == Init /\ [][NextSubs]_vars

\* the bboxes of the stored subscriptions of a user, in the order of the table
BboxesOf(d, email) ==
  [i \in 1..Len(get_bbox_subscriptions(d, email)) |->
     get_bbox_subscriptions(d, email)[i].bbox]

\* C12: every user has at most one stored subscription; after a successful
\* subscribe_to_bbox(u, b) the only subscription of u has bbox b, after
\* unsubscribe_all_bboxes(u) u has none, and both leave the subscriptions of
\* every other user as they were.
C12_SingleSubscription ==
  [][ /\ \A u \in Accounts : Len(BboxesOf(db', u)) <= 1
      /\ (last'.op = "subscribe" /\ last'.err = "Ok")
           => BboxesOf(db', last'.email) = <<last'.bbox>>
      /\ last'.op = "unsubscribe" => BboxesOf(db', last'.email) = <<>>
      /\ last'.op \in {"subscribe", "unsubscribe"}
           => \A u \in Accounts \ {last'.email} :
                get_bbox_subscriptions(db', u) = get_bbox_subscriptions(db, u)
    ]_vars

\* a user who had a subscription has subscribed to another bbox while the
\* other user keeps a subscription
C12_Witness ==
  /\ last.op = "subscribe"
  /\ last.err = "Ok"
  /\ last.email = "u2@x.org"
  /\ BboxesOf(db, "u1@x.org") = <<SearchBbox>>
  /\ BboxesOf(db, "u2@x.org") # <<SearchBbox>>
  /\ Len(db.bbox_subscriptions) = 2
  /\ db.bbox_subscriptions[2].uid = 2
  /\ db.bbox_subscriptions[1].user_id = 1


(***************************************************************************)
(* Recipients of a notification (specification SpecNotify): subscriptions  *)
(* are stored by the repository for any user and bbox, and the recipients  *)
(* of a position are computed as notify_event_created computes them.       *)
(***************************************************************************)
\* largest number of rows of the bbox_subscriptions table
MaxSubscriptions == 2

NotifiedPositions ==
  { [lat |-> 10, lng |-> 10], [lat |-> 5, lng |-> 5], [lat |-> 30, lng |-> 30] }

\* Db::create_bbox_subscription, called with a fresh id
CreateBboxSubscription(email, bbox) ==
  /\ Len(db.bbox_subscriptions) < MaxSubscriptions
  /\ \E r \in {create_bbox_subscription(db,
                 [id |-> FreshSubscriptionId(db), user_email |-> email,
                  bbox |-> bbox])} :
       /\ db' = r.db
       /\ last' = [op |-> "subscription", email |-> email, err |-> r.err]
  /\ notified' = <<>>
  /\ UNCHANGED <<entryIndex, eventIndex>>
  /\ UnchangedRace
  /\ UnchangedDup

\* the recipients notify_event_created computes for an event at pos
Locate(pos) ==
  /\ notified' = <<[pos |-> pos, err |-> "Ok",
                    recipients |-> email_addresses_by_coordinate(db, pos)]>>
  /\ last' = [op |-> "locate", err |-> "Ok"]
  /\ UNCHANGED <<db, entryIndex, eventIndex>>
  /\ UnchangedRace
  /\ UnchangedDup

NextNotify ==
  \/ CreateUser("u2@x.org")
  \/ \E email \in Accounts, bbox \in SubscriptionBboxes :
        CreateBboxSubscription(email, bbox)
  \/ \E pos \in NotifiedPositions : Locate(pos)

SpecNotify == Init /\ [][NextNotify]_vars

\* the users with a stored subscription whose bbox contains pos
SubscribersAt(d, pos) ==
  {d.users[d.bbox_subscriptions[i].user_id].email :
     i \in {k \in 1..Len(d.bbox_subscriptions) :
              in_bbox(pos, d.bbox_subscriptions[k].bbox)}}

NoFlowEvent(err, d) == [err |-> err, db |-> d, event |-> NoEvent]

\* the transaction of the flow once the event is imported (r) and, when it
\* is stored, the outcome of EventGateway::create_event
event_transaction_kept(d, r, store_ok) ==
  IF r.err # "Ok" THEN NoFlowEvent(r.err, r.db)
  ELSE IF r.event.created_by = NoEmail THEN NoFlowEvent("CreatorEmail", r.db)
  ELSE IF ~store_ok \/ create_event(r.db, r.event).err # "Ok"
       THEN NoFlowEvent("Other", r.db)
  ELSE [err |-> "Ok", db |-> create_event(r.db, r.event).db, event |-> r.event]
event_transaction(d, r, store_ok) ==
  IF r.err # "Ok" THEN NoFlowEvent(r.err, d)
  ELSE IF r.event.created_by = NoEmail THEN NoFlowEvent("CreatorEmail", d)
  ELSE IF ~store_ok \/ create_event(r.db, r.event).err # "Ok"
       THEN NoFlowEvent("Other", d)
  ELSE [err |-> "Ok", db |-> create_event(r.db, r.event).db, event |-> r.event]

\* usecases::index_event and flush_index: the event is in the index once
\* both have succeeded
index_event(index, event, env) ==
  IF env.index_ok /\ env.flush_ok THEN index \cup {event.id} ELSE index

\* the invocations of NotificationGateway::event_created that
\* notify_event_created makes with the addresses it has computed: the call
\* is commented out, the addresses are dropped
event_created_calls(email_addresses) == <<>>

\* notify_event_created
notify_event_created(d, event, env) ==
  IF event.pos = NoLocation
  THEN [pos |-> event.pos, err |-> "Ok", recipients |-> <<>>,
        event_created |-> <<>>]
  ELSE IF ~env.shared_ok
  THEN [pos |-> event.pos, err |-> "Other", recipients |-> <<>>,
        event_created |-> <<>>]
  ELSE [pos |-> event.pos, err |-> "Ok",
        recipients |-> email_addresses_by_coordinate(d, event.pos),
        event_created |->
          event_created_calls(email_addresses_by_coordinate(d, event.pos))]

\* flows::create_event after its transaction t: nothing more on an error,
\* else indexing and notification, whose errors are logged
index_and_notify_strict(index, t, env) ==
  [err |-> IF t.err = "Ok" /\ ~(env.index_ok /\ env.flush_ok /\ env.shared_ok)
           THEN "Other" ELSE t.err,
   db |-> t.db, event |-> t.event, index |-> index,
   notified |-> <<>>, indexer_calls |-> 0]
index_and_notify(index, t, env) ==
  IF t.err # "Ok"
  THEN [err |-> t.err, db |-> t.db, event |-> NoEvent, index |-> index,
        notified |-> <<>>, indexer_calls |-> 0]
  ELSE [err |-> "Ok", db |-> t.db, event |-> t.event,
        index |-> index_event(index, t.event, env),
        notified |-> <<notify_event_created(t.db, t.event, env)>>,
        indexer_calls |-> IF env.index_ok THEN 2 ELSE 1]

\* flows::create_event
create_event_flow(d, index, e, new_id, env) ==
  index_and_notify(index,
    event_transaction(d, try_into_new_event(d, e, new_id), env.store_ok), env)

FlowEventRequests ==
  [tags : {<< <<"#", "a">> >>}, created_by : {NoEmail, "u1@x.org", "ghost@x.org"},
   token : {NoToken, "token0"}, pos : {NoLocation, [lat |-> 10, lng |-> 10]},
   registration : {NoRegistration}, email : {NoEmail}, telephone : {NoText},
   homepage : {NoText}]

AllOk == [store_ok |-> TRUE, index_ok |-> TRUE, flush_ok |-> TRUE, shared_ok |-> TRUE]

\* the environments of a request: everything works, or one step fails, or
\* indexing and notification both fail
FlowEnvs ==
  { AllOk,
    [AllOk EXCEPT !.store_ok = FALSE],
    [AllOk EXCEPT !.index_ok = FALSE],
    [AllOk EXCEPT !.flush_ok = FALSE],
    [AllOk EXCEPT !.shared_ok = FALSE],
    [AllOk EXCEPT !.index_ok = FALSE, !.shared_ok = FALSE] }

CreateEventFlow(e, env) ==
  /\ Idle
  /\ \E r \in {create_event_flow(db, eventIndex, e, FreshEventId(db), env)} :
       /\ WithinBounds(r.db)
       /\ db' = r.db
       /\ eventIndex' = r.index
       /\ notified' = r.notified
       /\ last' = [op |-> "event_flow", id |-> FreshEventId(db), e |-> e,
                   env |-> env, err |-> r.err, event |-> r.event,
                   indexer_calls |-> r.indexer_calls]
  /\ UNCHANGED entryIndex
  /\ UnchangedRace
  /\ UnchangedDup

NextEventFlow ==
  \/ \E e \in FlowEventRequests, env \in FlowEnvs : CreateEventFlow(e, env)
  \/ \E email \in Accounts, bbox \in SubscriptionBboxes : Subscribe(email, bbox)

SpecEventFlow == Init /\ [][NextEventFlow]_vars

\* C14: when the flow returns an error, its transaction is rolled back: no
\* event, event tag, tag or user row of the request is in the database, and
\* neither the indexer nor the notification step has been invoked.
C14_FailedFlowRollsBack ==
  [][ (last'.op = "event_flow" /\ last'.err # "Ok")
        => /\ db' = db
           /\ eventIndex' = eventIndex
           /\ last'.indexer_calls = 0
           /\ notified' = <<>>
    ]_vars

\* the store of an event of a creator who is not registered has failed
\* after its tag and its creator had been written
C14_Witness ==
  /\ last.op = "event_flow"
  /\ last.err = "Other"
  /\ last.e.created_by = "ghost@x.org"
  /\ ~last.env.store_ok
  /\ resolve_user_created_by_email(db, "ghost@x.org") = 0
  /\ db.tags = {}

\* C15: once the transaction of the flow has committed, the flow returns Ok
\* with the stored event, whether or not indexing, the flush of the index or
\* the notification fails, and the event stays stored.
C15_CommittedFlowReturnsOk ==
  [][ (/\ last'.op = "event_flow"
       /\ event_transaction(db, try_into_new_event(db, last'.e, last'.id),
                            last'.env.store_ok).err = "Ok")
        => /\ last'.err = "Ok"
           /\ last'.event.id = last'.id
           /\ resolve_event_id(db', last'.id) # 0
    ]_vars

\* an event has been stored while both its indexing and its notification
\* have failed
C15_Witness ==
  /\ last.op = "event_flow"
  /\ last.err = "Ok"
  /\ ~last.env.index_ok
  /\ ~last.env.shared_ok
  /\ last.indexer_calls = 1
  /\ Len(notified) = 1
  /\ notified[1].err = "Other"
  /\ resolve_event_id(db, last.id) # 0
  /\ last.id \notin eventIndex


(***************************************************************************)
(* The event repository (specification SpecEventRepo): events are stored,  *)
(* archived and deleted by id and tag filter.                              *)
(***************************************************************************)
\* the rows archive_events updates: listed by uid and not archived, or,
\* in the variant, listed by uid
rows_to_archive_listed(d, ids) ==
  {i \in 1..Len(d.events) : d.events[i].uid \in Range(ids)}
rows_to_archive(d, ids) ==
  {i \in 1..Len(d.events) :
     d.events[i].uid \in Range(ids) /\ d.events[i].archived = NotArchived}

\* EventGateway::archive_events
archive_events(d, ids, archived) ==
  [err |-> "Ok",
   count |-> Cardinality(rows_to_archive(d, ids)),
   db |-> [d EXCEPT !.events =
             [i \in 1..Len(@) |->
                IF i \in rows_to_archive(d, ids)
                THEN [@[i] EXCEPT !.archived = archived] ELSE @[i]]]]

\* the rowids of the event among the rows of event_tags with a tag of tags
matching_event_ids_any(d, id, tags) == {id}
matching_event_ids(d, id, tags) ==
  {d.event_tags[i].event_id :
     i \in {k \in 1..Len(d.event_tags) :
              d.event_tags[k].event_id = id /\ d.event_tags[k].tag \in Range(tags)}}

\* the database without the event of this rowid and without its tags
delete_event_rows(d, id) ==
  [d EXCEPT !.event_tags = SelectSeq(@, LAMBDA r : r.event_id # id),
            !.events = SelectSeq(@, LAMBDA r : r.id # id)]

\* EventGateway::delete_event_with_matching_tags; deleted is FALSE for None
delete_event_with_matching_tags(d, uid, tags) ==
  IF resolve_event_id(d, uid) = 0
  THEN [err |-> "NotFound", deleted |-> FALSE, db |-> d]
  ELSE IF tags # <<>> /\ matching_event_ids(d, resolve_event_id(d, uid), tags) = {}
  THEN [err |-> "Ok", deleted |-> FALSE, db |-> d]
  ELSE [err |-> "Ok", deleted |-> TRUE,
        db |-> delete_event_rows(d, resolve_event_id(d, uid))]

\* largest number of rows of the events table in this specification; the
\* rowids stay below this number plus two
MaxStoredEvents == 2

EventIds == <<"e1", "e2", "e3", "e4">>

\* the uid of a new event: the first of EventIds no stored event has
NewEventId(d) ==
  EventIds[SetMin({i \in 1..Len(EventIds) : resolve_event_id(d, EventIds[i]) = 0})]

StoredEventTags == { <<>>, << <<"a">> >>, << <<"a">>, <<"b">> >> }

\* the ids archive_events is given: one event, two events, an unknown one
ArchivedIds == { <<"e1">>, <<"e2", "e1">>, <<"e2", "e9">> }

TagFilters == { <<>>, << <<"a">> >>, << <<"b">>, <<"c">> >> }

\* rowids are not used again once a later row exists: the table is kept
\* finite by the bound on the rowids
StoreEvent(tags) ==
  /\ Len(db.events) < MaxStoredEvents
  /\ next_event_id(db) <= MaxStoredEvents + 1
  /\ \E r \in {create_event(db, [id |-> NewEventId(db), tags |-> tags,
                                 created_by |-> "u1@x.org", pos |-> NoLocation])} :
       /\ db' = r.db
       /\ last' = [op |-> "store_event", err |-> r.err]
  /\ UNCHANGED <<entryIndex, eventIndex, notified>>
  /\ UnchangedRace
  /\ UnchangedDup

ArchiveEvents(ids, archived) ==
  /\ \E r \in {archive_events(db, ids, archived)} :
       /\ db' = r.db
       /\ last' = [op |-> "archive", err |-> r.err, ids |-> ids,
                   archived |-> archived, count |-> r.count]
  /\ UNCHANGED <<entryIndex, eventIndex, notified>>
  /\ UnchangedRace
  /\ UnchangedDup

DeleteEvent(uid, tags) ==
  /\ \E r \in {delete_event_with_matching_tags(db, uid, tags)} :
       /\ db' = r.db
       /\ last' = [op |-> "delete", err |-> r.err, id |-> uid, tags |-> tags,
                   deleted |-> r.deleted]
  /\ UNCHANGED <<entryIndex, eventIndex, notified>>
  /\ UnchangedRace
  /\ UnchangedDup

NextEventRepo ==
  \/ \E tags \in StoredEventTags : StoreEvent(tags)
  \/ \E ids \in ArchivedIds, archived \in {1, 2} : ArchiveEvents(ids, archived)
  \/ \E uid \in {"e1", "e2", "e9"}, tags \in TagFilters : DeleteEvent(uid, tags)

SpecEventRepo == Init /\ [][NextEventRepo]_vars

\* the row of the events table with this uid
EventRow(d, uid) == CHOOSE r \in Range(d.events) : r.uid = uid

EventUids(d) == {d.events[i].uid : i \in 1..Len(d.events)}

\* the listed events that are not archived
ToArchive(d, ids) ==
  {u \in EventUids(d) \cap Range(ids) : EventRow(d, u).archived = NotArchived}

\* C16: archive_events(ids, t) sets archived to t on exactly the listed
\* events that are not archived yet and returns their number; archived
\* events keep their date and are not counted, so that archiving the same
\* ids again returns 0 and changes nothing.
C16_ArchiveOnce ==
  [][ last'.op = "archive" =>
        /\ EventUids(db') = EventUids(db)
        /\ \A u \in EventUids(db) :
             EventRow(db', u) =
               IF u \in ToArchive(db, last'.ids)
               THEN [EventRow(db, u) EXCEPT !.archived = last'.archived]
               ELSE EventRow(db, u)
        /\ last'.count = Cardinality(ToArchive(db, last'.ids))
        /\ db'.event_tags = db.event_tags
        /\ (last.op = "archive" /\ last.ids = last'.ids)
             => last'.count = 0 /\ db' = db
    ]_vars

\* two events have been archived a second time, with another date: none is
\* counted and the first one keeps the date of the first time
C16_Witness ==
  /\ last.op = "archive"
  /\ last.ids = <<"e2", "e1">>
  /\ last.archived = 2
  /\ last.count = 0
  /\ EventUids(db) = {"e1", "e2"}
  /\ EventRow(db, "e1").archived = 1
  /\ EventRow(db, "e2").archived = 1

TagsOfEvent(d, id) ==
  {d.event_tags[i].tag : i \in {k \in 1..Len(d.event_tags) :
                                   d.event_tags[k].event_id = id}}

\* C17: delete_event_with_matching_tags deletes the event and its tag rows
\* if and only if the filter is empty or the event has one of its tags;
\* with a filter that matches no tag it returns None and the event and its
\* tags stay as they are.
C17_DeleteWithMatchingTags ==
  [][ (last'.op = "delete" /\ resolve_event_id(db, last'.id) # 0) =>
        LET id == resolve_event_id(db, last'.id)
            matches == \/ last'.tags = <<>>
                       \/ TagsOfEvent(db, id) \cap Range(last'.tags) # {}
        IN  /\ last'.err = "Ok"
            /\ last'.deleted = matches
            /\ matches =>
                 /\ resolve_event_id(db', last'.id) = 0
                 /\ TagsOfEvent(db', id) = {}
                 /\ db'.events = SelectSeq(db.events, LAMBDA r : r.id # id)
                 /\ db'.event_tags = SelectSeq(db.event_tags, LAMBDA r : r.event_id # id)
            /\ ~matches => db' = db
    ]_vars

\* an event with tags has been kept by a filter that names none of them,
\* while another event is stored
C17_Witness ==
  /\ last.op = "delete"
  /\ last.err = "Ok"
  /\ ~last.deleted
  /\ last.tags # <<>>
  /\ resolve_event_id(db, last.id) # 0
  /\ TagsOfEvent(db, resolve_event_id(db, last.id)) = { <<"a">> }
  /\ Len(db.events) = 2


(***************************************************************************)
(* User tokens and the confirmation of e-mail addresses (specification     *)
(* SpecTokens). An EmailNonce is an address and a nonce; its encoding is   *)
(* the sequence of the two.                                                *)
(***************************************************************************)
\* the rows of user_tokens of the user with this rowid
tokens_of_user(d, user_id) ==
  SelectSeq(d.user_tokens, LAMBDA t : t.user_id = user_id)

\* insert into user_tokens, user_id being unique: on a conflict the table
\* either replaces the row (1 row) or ignores the insert (0 rows)
insert_user_token(d, model, on_conflict) ==
  IF tokens_of_user(d, model.user_id) = <<>>
  THEN [count |-> 1, db |-> [d EXCEPT !.user_tokens = Append(@, model)]]
  ELSE IF on_conflict = "replace"
  THEN [count |-> 1,
        db |-> [d EXCEPT !.user_tokens =
                  Append(SelectSeq(@, LAMBDA t : t.user_id # model.user_id), model)]]
  ELSE [count |-> 0, db |-> d]

\* the update of the row of the user when nothing has been inserted
update_user_token(ins, model) ==
  IF ins.count # 0 THEN ins.db
  ELSE [ins.db EXCEPT !.user_tokens =
          [i \in 1..Len(@) |-> IF @[i].user_id = model.user_id THEN model ELSE @[i]]]

\* UserTokenRepo::replace_user_token
replace_user_token_inserted(d, token, on_conflict) ==
  IF resolve_user_created_by_email(d, token.email) = 0 THEN Result("NotFound", d)
  ELSE Result("Ok", [d EXCEPT !.user_tokens = Append(@,
         [user_id |-> resolve_user_created_by_email(d, token.email),
          nonce |-> token.nonce, expires_at |-> token.expires_at])])
replace_user_token(d, token, on_conflict) ==
  IF resolve_user_created_by_email(d, token.email) = 0 THEN Result("NotFound", d)
  ELSE LET model == [user_id |-> resolve_user_created_by_email(d, token.email),
                     nonce |-> token.nonce, expires_at |-> token.expires_at]
       IN  Result("Ok", update_user_token(insert_user_token(d, model, on_conflict),
                                          model))

\* UserTokenRepo::consume_user_token
consume_user_token_any_nonce(d, email, nonce) ==
  IF tokens_of_user(d, resolve_user_created_by_email(d, email)) = <<>>
  THEN Result("NotFound", d)
  ELSE Result("Ok", [d EXCEPT !.user_tokens =
         SelectSeq(@, LAMBDA t : t.user_id # resolve_user_created_by_email(d, email))])
consume_user_token(d, email, nonce) ==
  IF tokens_of_user(d, resolve_user_created_by_email(d, email)) = <<>>
  THEN Result("NotFound", d)
  ELSE IF \A i \in 1..Len(d.user_tokens) :
            ~(/\ d.user_tokens[i].nonce = nonce
              /\ d.user_tokens[i].user_id = resolve_user_created_by_email(d, email))
  THEN Result("NotFound", d)
  ELSE Result("Ok", [d EXCEPT !.user_tokens =
         SelectSeq(@, LAMBDA t :
           ~(/\ t.nonce = nonce
             /\ t.user_id = resolve_user_created_by_email(d, email)))])

\* EmailNonce::encode_to_string
encode_to_string(email, nonce) == <<email, nonce>>

\* EmailNonce::decode_from_str succeeds
well_formed(token) == Len(token) = 2

\* variant: every unconfirmed user becomes a User
confirmed_user_as_user(user) ==
  IF user.email_confirmed THEN user
  ELSE [user EXCEPT !.email_confirmed = TRUE, !.role = User]

\* the user confirm_email_address stores back
confirmed_user(user) ==
  IF user.email_confirmed THEN user
  ELSE [user EXCEPT !.email_confirmed = TRUE,
                    !.role = IF @ = Guest THEN User ELSE @]

\* usecases::confirm_email_address; debug_assertions tells whether the build
\* checks debug_assert_eq!(Role::Guest, user.role), which panics before the
\* user is stored back
confirm_email_address(d, token, debug_assertions) ==
  IF ~well_formed(token) THEN Result("TokenInvalid", d)
  ELSE IF resolve_user_created_by_email(d, token[1]) = 0 THEN Result("NotFound", d)
  ELSE IF /\ debug_assertions
          /\ ~d.users[resolve_user_created_by_email(d, token[1])].email_confirmed
          /\ d.users[resolve_user_created_by_email(d, token[1])].role # Guest
  THEN Result("Panic", d)
  ELSE Result("Ok", [d EXCEPT
         !.users[resolve_user_created_by_email(d, token[1])] = confirmed_user(@)])

Nonces == {"n1", "n2"}

\* the time of a request and the times tokens expire at, before and after it
Now == 2
ExpiryTimes == {Now - 1, Now + 1}

UserTokens == [email : Accounts, nonce : Nonces, expires_at : ExpiryTimes]

ConfirmationTokens ==
  {encode_to_string(email, nonce) : email \in Accounts, nonce \in Nonces}
    \cup { <<"u2@x.org">> }

ReplaceUserToken(token, on_conflict) ==
  /\ \E r \in {replace_user_token(db, token, on_conflict)} :
       /\ db' = r.db
       /\ last' = [op |-> "replace_token", err |-> r.err, token |-> token]
  /\ UNCHANGED <<entryIndex, eventIndex, notified>>
  /\ UnchangedRace
  /\ UnchangedDup

ConsumeUserToken(email, nonce) ==
  /\ \E r \in {consume_user_token(db, email, nonce)} :
       /\ db' = r.db
       /\ last' = [op |-> "consume_token", err |-> r.err, email |-> email,
                   nonce |-> nonce]
  /\ UNCHANGED <<entryIndex, eventIndex, notified>>
  /\ UnchangedRace
  /\ UnchangedDup

\* POST /confirm-email-address
ConfirmEmailAddress(token, debug_assertions) ==
  /\ \E r \in {confirm_email_address(db, token, debug_assertions)} :
       /\ db' = r.db
       /\ last' = [op |-> "confirm", err |-> r.err, token |-> token,
                   debug_assertions |-> debug_assertions]
  /\ UNCHANGED <<entryIndex, eventIndex, notified>>
  /\ UnchangedRace
  /\ UnchangedDup

NextTokens ==
  \/ CreateUser("u2@x.org")
  \/ \E token \in UserTokens, on_conflict \in {"replace", "ignore"} :
        ReplaceUserToken(token, on_conflict)
  \/ \E email \in Accounts, nonce \in Nonces : ConsumeUserToken(email, nonce)
  \/ \E token \in ConfirmationTokens, debug_assertions \in BOOLEAN :
        ConfirmEmailAddress(token, debug_assertions)

SpecTokens == Init /\ [][NextTokens]_vars

\* the stored tokens of the user with this address
TokensOf(d, email) ==
  IF resolve_user_created_by_email(d, email) = 0 THEN <<>>
  ELSE tokens_of_user(d, resolve_user_created_by_email(d, email))

C19_TokenSingleUse ==
  [][ last'.op = "consume_token" =>
        LET stored == TokensOf(db, last'.email)
            matches == \E i \in 1..Len(stored) : stored[i].nonce = last'.nonce
        IN  /\ last'.err = "Ok" <=> matches
            /\ matches => TokensOf(db', last'.email) = <<>>
            /\ ~matches => last'.err = "NotFound" /\ db' = db
            /\ \A email \in Accounts \ {last'.email} :
                 TokensOf(db', email) = TokensOf(db, email)
            /\ (/\ last.op = "consume_token" /\ last.err = "Ok"
                /\ last.email = last'.email /\ last.nonce = last'.nonce)
                 => last'.err = "NotFound"
    ]_vars

\* the token of the second user has been consumed with its nonce and is
\* gone, while the first user keeps a token
C19_Witness ==
  /\ last.op = "consume_token"
  /\ last.err = "Ok"
  /\ last.email = "u2@x.org"
  /\ resolve_user_created_by_email(db, "u2@x.org") # 0
  /\ TokensOf(db, "u2@x.org") = <<>>
  /\ Len(TokensOf(db, "u1@x.org")) = 1

\* the user of a well-formed token has a stored token with its nonce that
\* has not expired
HasValidToken(d, token) ==
  \E i \in 1..Len(TokensOf(d, token[1])) :
     /\ TokensOf(d, token[1])[i].nonce = token[2]
     /\ TokensOf(d, token[1])[i].expires_at >= Now

\* C20: confirm_email_address with a well-formed token whose nonce matches
\* no stored, unexpired token of the user neither confirms the address nor
\* changes the role.
C20_ConfirmNeedsStoredToken ==
  [][ (/\ last'.op = "confirm"
       /\ well_formed(last'.token)
       /\ ~HasValidToken(db, last'.token))
        => db'.users = db.users
    ]_vars



(***************************************************************************)
(* Specification SpecUsers: accounts are created unconfirmed with any      *)
(* role, addresses are confirmed and users are authorized by their         *)
(* address.                                                                *)
(***************************************************************************)
Roles == {Guest, User, Scout, Admin}

\* Option::None of a user
NoUser == [email |-> "", email_confirmed |-> FALSE, role |-> Guest]

\* variant: the role has to be above the required one
role_ge_strict(role, min_required_role) ==
  role_rank(role) > role_rank(min_required_role)

\* user.role >= min_required_role
role_ge(role, min_required_role) ==
  role_rank(role) >= role_rank(min_required_role)

\* UserGateway::try_get_user_by_email
try_get_user_by_email(d, email) ==
  IF resolve_user_created_by_email(d, email) = 0 THEN NoUser
  ELSE d.users[resolve_user_created_by_email(d, email)]

\* usecases::authorize_user_by_email
authorize_user_by_email(d, user_email, min_required_role) ==
  IF /\ try_get_user_by_email(d, user_email) # NoUser
     /\ role_ge(try_get_user_by_email(d, user_email).role, min_required_role)
  THEN [err |-> "Ok", user |-> try_get_user_by_email(d, user_email)]
  ELSE [err |-> "Unauthorized", user |-> NoUser]

UserAccounts == Accounts \cup {"u3@x.org"}

\* a user is registered, unconfirmed, with a role
CreateUserWithRole(email, role) ==
  /\ \E r \in {create_user(db, [email |-> email, email_confirmed |-> FALSE,
                                role |-> role])} :
       /\ db' = r.db
       /\ last' = [op |-> "user", email |-> email, err |-> r.err]
  /\ UNCHANGED <<entryIndex, eventIndex, notified>>
  /\ UnchangedRace
  /\ UnchangedDup

AuthorizeUserByEmail(email, min_required_role) ==
  /\ \E r \in {authorize_user_by_email(db, email, min_required_role)} :
       last' = [op |-> "authorize", err |-> r.err, user |-> r.user,
                email |-> email, min_required_role |-> min_required_role]
  /\ UNCHANGED <<db, entryIndex, eventIndex, notified>>
  /\ UnchangedRace
  /\ UnchangedDup

\* the tokens of the accounts and one that cannot be decoded
UserConfirmationTokens ==
  {encode_to_string(email, "n1") : email \in UserAccounts} \cup { <<"u2@x.org">> }

NextUsers ==
  \/ \E email \in {"u2@x.org", "u3@x.org"}, role \in Roles :
        CreateUserWithRole(email, role)
  \/ \E token \in UserConfirmationTokens, debug_assertions \in BOOLEAN :
        ConfirmEmailAddress(token, debug_assertions)
  \/ \E email \in UserAccounts, min_required_role \in Roles :
        AuthorizeUserByEmail(email, min_required_role)

SpecUsers == Init /\ [][NextUsers]_vars

\* the user with this address, NoUser when there is none
UserOf(d, email) ==
  IF \E i \in 1..Len(d.users) : d.users[i].email = email
  THEN d.users[CHOOSE i \in 1..Len(d.users) : d.users[i].email = email]
  ELSE NoUser

\* C21: when confirm_email_address succeeds for an existing unconfirmed
\* user, the user is confirmed afterwards and a Guest has become a User; no
\* call changes a role other than Guest, an already confirmed user stays as
\* it is, so that repeating a call changes nothing, no other user is ever
\* touched, and a token that cannot be decoded fails with TokenInvalid and
\* leaves all users as they are.
C21_ConfirmEmail ==
  [][ last'.op = "confirm" =>
        /\ Len(db'.users) = Len(db.users)
        /\ \A i \in 1..Len(db.users) :
             /\ db.users[i].role # Guest => db'.users[i].role = db.users[i].role
             /\ db.users[i].email_confirmed => db'.users[i] = db.users[i]
             /\ db.users[i].email # last'.token[1] => db'.users[i] = db.users[i]
             /\ db'.users[i].email = db.users[i].email
        /\ (/\ well_formed(last'.token)
            /\ last'.err = "Ok"
            /\ ~UserOf(db, last'.token[1]).email_confirmed)
             => /\ UserOf(db', last'.token[1]).email_confirmed
                /\ UserOf(db, last'.token[1]).role = Guest
                     => UserOf(db', last'.token[1]).role = User
        /\ ~well_formed(last'.token)
             => last'.err = "TokenInvalid" /\ db'.users = db.users
        /\ (last.op = "confirm" /\ last.token = last'.token /\ last.err = "Ok")
             => db'.users = db.users
    ]_vars

\* an unconfirmed Guest and an unconfirmed Scout have both been confirmed by
\* a build without debug assertions: the Guest is a User now, the Scout
\* still a Scout
C21_Witness ==
  /\ last.op = "confirm"
  /\ last.err = "Ok"
  /\ ~last.debug_assertions
  /\ Len(db.users) = 3
  /\ UserOf(db, "u2@x.org") = [email |-> "u2@x.org", email_confirmed |-> TRUE,
                               role |-> User]
  /\ UserOf(db, "u3@x.org") = [email |-> "u3@x.org", email_confirmed |-> TRUE,
                               role |-> Scout]

\* the pairs of a role and a required role the order Guest < User < Scout <
\* Admin lets pass
AtLeast ==
  { <<Guest, Guest>>,
    <<User, Guest>>, <<User, User>>,
    <<Scout, Guest>>, <<Scout, User>>, <<Scout, Scout>>,
    <<Admin, Guest>>, <<Admin, User>>, <<Admin, Scout>>, <<Admin, Admin>> }

\* C23: authorize_user_by_email returns the user with the address exactly
\* when there is one and its role is at least the required role in the order
\* Guest < User < Scout < Admin; otherwise, also for an unknown address, it
\* fails with Unauthorized.
C23_AuthorizeByRole ==
  last.op = "authorize" =>
    LET known == \E i \in 1..Len(db.users) : db.users[i].email = last.email
        allowed == known /\ <<UserOf(db, last.email).role,
                              last.min_required_role>> \in AtLeast
    IN  /\ last.err = "Ok" <=> allowed
        /\ allowed => last.user = UserOf(db, last.email)
        /\ ~allowed => last.err = "Unauthorized"

\* a Scout has been authorized where a User is required
C23_Witness ==
  /\ last.op = "authorize"
  /\ last.err = "Ok"
  /\ last.min_required_role = User
  /\ last.user.role = Scout
  /\ last.user = UserOf(db, last.email)



(***************************************************************************)
(* Specification SpecRegistration: events are created with a registration  *)
(* type and with or without the contact data it asks for.                  *)
(***************************************************************************)
RegistrationRequests ==
  [tags : {<< <<"a">> >>}, created_by : {"u1@x.org", "ghost@x.org"},
   token : {NoToken}, pos : {NoLocation},
   registration : {NoRegistration, "", "email", "eMail", "telephone",
                   "homepage", "fax"},
   email : {NoEmail, "c@x.org"}, telephone : {NoText, "123"},
   homepage : {NoText, "", "https://x.org"}]

NextRegistration == \E e \in RegistrationRequests : CreateEvent(e)

SpecRegistration == Init /\ [][NextRegistration]_vars

\* C22: creating an event with the registration type email and no contact
\* e-mail address fails with Email, with telephone and no contact telephone
\* number with Phone, with homepage and no homepage with Url, and stores no
\* event; with the contact field of the registration type the event is
\* stored.
C22_RegistrationCoherence ==
  [][ last'.op = "event" =>
        LET e == last'.e
            type == to_lowercase(e.registration)
        IN  /\ (type = "email" /\ e.email = NoEmail)
                 => last'.err = "Email" /\ db'.events = db.events
            /\ (type = "telephone" /\ e.telephone = NoText)
                 => last'.err = "Phone" /\ db'.events = db.events
            /\ (type = "homepage" /\ e.homepage \in {NoText, ""})
                 => last'.err = "Url" /\ db'.events = db.events
            /\ (\/ type = "email" /\ e.email # NoEmail
                \/ type = "telephone" /\ e.telephone # NoText
                \/ type = "homepage" /\ e.homepage \notin {NoText, ""})
                 => /\ last'.err = "Ok"
                    /\ Len(db'.events) = Len(db.events) + 1
    ]_vars


\* C22 (amended): a registration by e-mail or by telephone for a request
\* without any contact data fails with Contact; with a telephone number but
\* no e-mail address the registration by e-mail fails with Email, with an
\* e-mail address but no telephone number the registration by telephone
\* fails with Phone, a registration by homepage without a homepage fails
\* with Url. None of them stores an event; with the contact field of the
\* registration type the event is stored.
C22_RegistrationNeedsContact ==
  [][ last'.op = "event" =>
        LET e == last'.e
            type == to_lowercase(e.registration)
            none == e.email = NoEmail /\ e.telephone = NoText
        IN  /\ (type \in {"email", "telephone"} /\ none)
                 => last'.err = "Contact" /\ db'.events = db.events
            /\ (type = "email" /\ e.email = NoEmail /\ ~none)
                 => last'.err = "Email" /\ db'.events = db.events
            /\ (type = "telephone" /\ e.telephone = NoText /\ ~none)
                 => last'.err = "Phone" /\ db'.events = db.events
            /\ (type = "homepage" /\ e.homepage \in {NoText, ""})
                 => last'.err = "Url" /\ db'.events = db.events
            /\ (\/ type = "email" /\ e.email # NoEmail
                \/ type = "telephone" /\ e.telephone # NoText
                \/ type = "homepage" /\ e.homepage \notin {NoText, ""})
                 => /\ last'.err = "Ok"
                    /\ Len(db'.events) = Len(db.events) + 1
    ]_vars

\* a registration by e-mail with a telephone number and no e-mail address
\* has failed with Email and nothing is stored
C22_Witness ==
  /\ last.op = "event"
  /\ last.err = "Email"
  /\ last.e.registration = "email"
  /\ last.e.email = NoEmail
  /\ last.e.telephone = "123"
  /\ db.events = <<>>



(***************************************************************************)
(* Specification SpecTags: prepare_tag_list is applied to a list of tags   *)
(* and then to its own result.                                             *)
(***************************************************************************)
\* the state before any request, last being what a specification of a pure
\* function starts from
InitWith(l) ==
  /\ db = InitDb
  /\ last = l
  /\ lock = "free"
  /\ pc = [w \in Writers |-> "idle"]
  /\ req = [w \in Writers |-> NoRequest]
  /\ storable = [w \in Writers |-> NoStorable]
  /\ outcome = [w \in Writers |-> "none"]
  /\ dupPlaces = <<>>
  /\ dupResult = <<>>
  /\ entryIndex = <<>>
  /\ eventIndex = {}
  /\ notified = <<>>

UnchangedButLast ==
  /\ UNCHANGED <<db, entryIndex, eventIndex, notified>>
  /\ UnchangedRace
  /\ UnchangedDup

MaxTagLen == 3

TagChars == {" ", "\t", "#", "a", "b"}

\* the strings over TagChars of at most n characters
TagStrings(n) == UNION {[1..k -> TagChars] : k \in 0..n}

\* lists of one tag of up to MaxTagLen characters and of two shorter tags
TagLists ==
  {<<t>> : t \in TagStrings(MaxTagLen)}
    \cup {<<t, u>> : t \in TagStrings(MaxTagLen - 1), u \in TagStrings(MaxTagLen - 1)}

InitTags == \E x \in TagLists : InitWith([op |-> "tags", tags |-> x])

PrepareTagList ==
  /\ last.op = "tags"
  /\ last' = [op |-> "prepare_tag_list", tags |-> last.tags,
              result |-> prepare_tag_list(last.tags)]
  /\ UnchangedButLast

PrepareTagListAgain ==
  /\ last.op = "prepare_tag_list"
  /\ last' = [op |-> "prepare_tag_list_again", tags |-> last.tags,
              result |-> last.result, again |-> prepare_tag_list(last.result)]
  /\ UnchangedButLast

NextTags == PrepareTagList \/ PrepareTagListAgain

SpecTags == InitTags /\ [][NextTags]_vars

\* C24: prepare_tag_list applied to its own result returns that result.
C24_PrepareTagListIdempotent ==
  last.op = "prepare_tag_list_again" => last.again = last.result

\* a tag with a "#" and one with a space, in descending order, have been
\* normalized to two sorted tags, and normalized again
C24_Witness ==
  /\ last.op = "prepare_tag_list_again"
  /\ last.tags = << <<"#", "b">>, <<"a", " ">> >>
  /\ last.result = << <<"a">>, <<"b">> >>
  /\ last.again = last.result


\* the id of the place a successful create, update or store has written
WrittenId(l) == IF l.op = "store" THEN l.place.id ELSE l.id

MaxTitleLen == 3

TitleChars == {"a", "b", " "}

\* the titles of at most MaxTitleLen characters and some of two words with
\* more
Titles ==
  UNION {[1..k -> TitleChars] : k \in 0..MaxTitleLen}
    \cup { <<"a", " ", "b", "b">>, <<"a", "b", " ", "b", "a">>,
           <<"b", "a", " ", "a", "b">> }

InitTitles ==
  \E s \in Titles, t \in Titles : InitWith([op |-> "titles", s |-> s, t |-> t])

\* the two places of a pair of titles, DUPLICATE_MAX_DISTANCE apart
TitlePlace1(l) == [id |-> <<"1">>, title |-> l.s, pos |-> 0]
TitlePlace2(l) == [id |-> <<"9">>, title |-> l.t, pos |-> DUPLICATE_MAX_DISTANCE]

LevenshteinDistance ==
  /\ last.op = "titles"
  /\ last' = [op |-> "levenshtein_distance", s |-> last.s, t |-> last.t,
              result |-> levenshtein_distance(last.s, last.t)]
  /\ UnchangedButLast

\* the title predicate of SimilarChars
SimilarTitle ==
  /\ last.op = "titles"
  /\ last' = [op |-> "similar_title", s |-> last.s, t |-> last.t,
              result |-> similar_title(TitlePlace1(last), TitlePlace2(last), 3, 0)]
  /\ UnchangedButLast

WordsEqualExceptKWords(k) ==
  /\ last.op = "titles"
  /\ last' = [op |-> "words_equal_except_k_words", s |-> last.s, t |-> last.t,
              k |-> k,
              result |-> words_equal_except_k_words(last.s, last.t, k)]
  /\ UnchangedButLast

IsDuplicate ==
  /\ last.op = "titles"
  /\ last' = [op |-> "is_duplicate", s |-> last.s, t |-> last.t,
              result |-> is_duplicate(TitlePlace1(last), TitlePlace2(last)),
              reverse |-> is_duplicate(TitlePlace2(last), TitlePlace1(last))]
  /\ UnchangedButLast

NextTitles ==
  \/ LevenshteinDistance
  \/ SimilarTitle
  \/ \E k \in 0..2 : WordsEqualExceptKWords(k)
  \/ IsDuplicate

SpecTitles == InitTitles /\ [][NextTitles]_vars

\* the Levenshtein predicate of SimilarChars as the code computes it
LevenshteinPredicate(s, t) ==
  levenshtein_distance_small(s, t, (min(Len(s), Len(t)) * 3) \div 10 + 1)

\* C26: for two places within 100 m, is_duplicate returns SimilarChars
\* exactly when the Levenshtein predicate holds for the titles, SimilarWords
\* exactly when it fails and at most 2 tokens of one title are missing from
\* the other, and None otherwise.
C26_DuplicateTypeByPredicate ==
  last.op = "is_duplicate" =>
    last.result =
      IF LevenshteinPredicate(last.s, last.t) THEN "SimilarChars"
      ELSE IF words_equal_except_k_words(last.s, last.t, 2) THEN "SimilarWords"
      ELSE NoDuplicate

\* the minimum number of insertions, deletions and substitutions of one
\* character that turn s into t
EditDistance(s, t) ==
  LET d[i \in 0..Len(s), j \in 0..Len(t)] ==
        IF i = 0 THEN j
        ELSE IF j = 0 THEN i
        ELSE min3(d[i - 1, j] + 1, d[i, j - 1] + 1,
                  d[i - 1, j - 1] + (IF s[i] = t[j] THEN 0 ELSE 1))
  IN  d[Len(s), Len(t)]

\* C27: levenshtein_distance(s, t) is the edit distance of s and t; it is 0
\* only when s = t, and Len(t) when s is empty.
C27_LevenshteinIsEditDistance ==
  last.op = "levenshtein_distance" =>
    /\ last.result = EditDistance(last.s, last.t)
    /\ last.result = 0 => last.s = last.t
    /\ last.s = <<>> => last.result = Len(last.t)

\* C28: the title predicate of SimilarChars accepts two titles exactly when
\* their edit distance is at most ceil(min(len1, len2) * 0.3) + 1.
C28_SimilarCharsThreshold ==
  last.op = "similar_title" =>
    (last.result <=>
       EditDistance(last.s, last.t)
         <= (min(Len(last.s), Len(last.t)) * 3 + 9) \div 10 + 1)

\* the tokens of a title, split at whitespace, as a set
TokenSet(s) == Range(split_whitespace(s))

\* the tokens of the title with more tokens (of t when both have as many)
\* that the other title does not have
MissingTokens(s, t) ==
  IF Len(split_whitespace(s)) <= Len(split_whitespace(t))
  THEN TokenSet(t) \ TokenSet(s)
  ELSE TokenSet(s) \ TokenSet(t)

\* C29: words_equal_except_k_words(s1, s2, k) is true exactly when the
\* titles are not both of one token and at most k tokens of one title are
\* not in the other, the titles being split at whitespace and compared as
\* sets of tokens.
C29_WordsEqualAsSets ==
  last.op = "words_equal_except_k_words" =>
    (last.result <=>
       /\ ~(Len(split_whitespace(last.s)) = 1 /\ Len(split_whitespace(last.t)) = 1)
       /\ Cardinality(MissingTokens(last.s, last.t)) <= last.k)

\* C30: is_duplicate(a, b) = is_duplicate(b, a).
C30_IsDuplicateSymmetric ==
  last.op = "is_duplicate" => last.result = last.reverse



(***************************************************************************)
(* Counting queries (specification SpecCount): places are created, updated *)
(* and reviewed, and the places and their tags are counted.                *)
(***************************************************************************)
\* rowids of the current revisions of all places, as the sub-select
\* (parent_rowid, rev) IN (SELECT rowid, current_rev FROM place)
all_current_revision_rowids(d) ==
  {i \in 1..Len(d.place_revision) :
     /\ d.place_revision[i].parent_rowid \in 1..Len(d.place)
     /\ d.place_revision[i].rev
          = d.place[d.place_revision[i].parent_rowid].current_rev}

\* PlaceRepo::count_places: current_status >= Created
count_places(d) ==
  Cardinality({i \in all_current_revision_rowids(d) :
                 d.place_revision[i].current_status >= Created})

\* the revisions whose tags most_popular_place_revision_tags counts:
\* current_status > 0
popular_revision_rowids(d) ==
  {i \in all_current_revision_rowids(d) : d.place_revision[i].current_status > 0}

\* COUNT(*) ... GROUP BY tag over the tag rows of these revisions
tag_count(d, rowids, tag) ==
  Cardinality({k \in 1..Len(d.place_revision_tag) :
                 /\ d.place_revision_tag[k].parent_rowid \in rowids
                 /\ d.place_revision_tag[k].tag = tag})

\* ORDER BY count DESC, tag
TagFrequencyBefore(x, y) ==
  \/ x.count > y.count
  \/ x.count = y.count /\ StrLess(x.tag, y.tag)

RECURSIVE OrderTagFrequencies(_)
OrderTagFrequencies(rows) ==
  IF rows = {} THEN <<>>
  ELSE LET first == CHOOSE x \in rows :
                      \A y \in rows \ {x} : TagFrequencyBefore(x, y)
       IN  <<first>> \o OrderTagFrequencies(rows \ {first})

\* PlaceRepo::most_popular_place_revision_tags without min_count, max_count,
\* offset and limit
most_popular_place_revision_tags(d) ==
  OrderTagFrequencies(
    {[tag |-> d.place_revision_tag[k].tag,
      count |-> tag_count(d, popular_revision_rowids(d),
                          d.place_revision_tag[k].tag)] :
       k \in {k \in 1..Len(d.place_revision_tag) :
                d.place_revision_tag[k].parent_rowid \in popular_revision_rowids(d)}})

CountTagInputs == { << <<"a">> >>, << <<"a">>, <<"b">> >> }

CountPlaces ==
  /\ Idle
  /\ last' = [op |-> "count_places", err |-> "Ok", count |-> count_places(db)]
  /\ UnchangedButLast

MostPopularTags ==
  /\ Idle
  /\ last' = [op |-> "most_popular_tags", err |-> "Ok",
              tags |-> most_popular_place_revision_tags(db)]
  /\ UnchangedButLast

NextCount ==
  \/ \E e \in NewPlaceRequests(CountTagInputs) : CreatePlace(e)
  \/ \E id \in PlaceIds, tags \in CountTagInputs :
        UpdatePlace(id, [version |-> RevisionNext(InitialRevision), tags |-> tags],
                    "u1@x.org")
  \/ \E id \in PlaceIds, st \in ReviewStatuses, log \in ActivityLogs :
        ReviewPlaces({id}, st, log)
  \/ CountPlaces
  \/ MostPopularTags

SpecCount == Init /\ [][NextCount]_vars

\* the current revisions with a status of at least Created
CountedRevisions(d) ==
  {i \in 1..Len(d.place_revision) :
     /\ \E j \in 1..Len(d.place) :
          /\ d.place_revision[i].parent_rowid = j
          /\ d.place_revision[i].rev = d.place[j].current_rev
     /\ d.place_revision[i].current_status \in {Created, Confirmed}}

\* the number of counted revisions that carry the tag
CountedWithTag(d, tag) ==
  Cardinality({i \in CountedRevisions(d) : tag \in Range(revision_tags(d, i))})

\* C31: count_places is the number of places whose current revision is
\* Created or Confirmed, and most_popular_place_revision_tags lists every tag
\* of these current revisions with the number of them that carry it, and no
\* other tag; Rejected and Archived current revisions and all revisions that
\* are not current contribute nothing.
C31_CountsWhatIsCounted ==
  /\ last.op = "count_places" => last.count = Cardinality(CountedRevisions(db))
  /\ last.op = "most_popular_tags" =>
       /\ \A k \in 1..Len(last.tags) :
            last.tags[k].count = CountedWithTag(db, last.tags[k].tag)
       /\ \A tag \in {db.place_revision_tag[k].tag :
                        k \in 1..Len(db.place_revision_tag)} :
            CountedWithTag(db, tag) > 0
              => \E k \in 1..Len(last.tags) : last.tags[k].tag = tag


\* C32: when the flow that creates an event succeeds for an event with a
\* location, event_created of the notification gateway is invoked exactly
\* once, with the addresses of all subscriptions whose bbox contains the
\* position of the event; for an event without a location it is not
\* invoked.
C32_EventCreatedNotified ==
  (last.op = "event_flow" /\ last.err = "Ok" /\ last.env.shared_ok) =>
    /\ Len(notified) = 1
    /\ IF last.event.pos = NoLocation
       THEN notified[1].event_created = <<>>
       ELSE /\ Len(notified[1].event_created) = 1
            /\ Range(notified[1].event_created[1])
                 = SubscribersAt(db, last.event.pos)



(***************************************************************************)
(* Updates of events (specification SpecEventUpdate): events are stored,   *)
(* archived, updated and read. The changeset of an update either skips a   *)
(* field that is None or writes NULL for it; the struct that decides it is *)
(* not part of the sources, both are possible.                             *)
(***************************************************************************)
\* the value an UPDATE ... SET writes into a nullable column: new when it
\* is given, else NULL or the old value
changeset_value(old, new, null, treat_none_as_null) ==
  IF new # null THEN new ELSE IF treat_none_as_null THEN null ELSE old

\* the row of the events table after update_event
updated_event_row(row, event, created_by, treat_none_as_null) ==
  [row EXCEPT
     !.created_by = changeset_value(@, created_by, 0, treat_none_as_null),
     !.pos = changeset_value(@, event.pos, NoLocation, treat_none_as_null),
     !.address = changeset_value(@, address_of(event), NoAddress,
                                 treat_none_as_null),
     !.archived = changeset_value(@, event.archived, NotArchived,
                                  treat_none_as_null)]

\* the rows of event_tags after update_event: the tags the event no longer
\* has are deleted, the new ones are inserted
updated_event_tags(d, id, new_tags) ==
  SelectSeq(d.event_tags,
            LAMBDA r : ~(r.event_id = id /\ r.tag \notin Range(new_tags)))
    \o [i \in 1..Len(SelectSeq(new_tags, LAMBDA t :
                       [event_id |-> id, tag |-> t] \notin Range(d.event_tags))) |->
          [event_id |-> id,
           tag |-> SelectSeq(new_tags, LAMBDA t :
                     [event_id |-> id, tag |-> t] \notin Range(d.event_tags))[i]]]

\* EventGateway::update_event
update_event(d, event, treat_none_as_null) ==
  IF resolve_event_id(d, event.id) = 0 THEN Result("NotFound", d)
  ELSE IF /\ event.created_by # NoEmail
          /\ resolve_user_created_by_email(d, event.created_by) = 0
  THEN Result("NotFound", d)
  ELSE Result("Ok",
         [d EXCEPT
            !.events = [i \in 1..Len(@) |->
               IF @[i].id = resolve_event_id(d, event.id)
               THEN updated_event_row(@[i], event,
                      IF event.created_by = NoEmail THEN 0
                      ELSE resolve_user_created_by_email(d, event.created_by),
                      treat_none_as_null)
               ELSE @[i]],
            !.event_tags =
               updated_event_tags(d, resolve_event_id(d, event.id), event.tags)])

\* EventGateway::get_event: the event with this uid that is not archived
get_event(d, uid) ==
  IF \E i \in 1..Len(d.events) :
       d.events[i].uid = uid /\ d.events[i].archived = NotArchived
  THEN "Ok" ELSE "NotFound"

\* EventGateway::all_events_chronologically, as the uids of its events
all_events_chronologically(d) ==
  {d.events[i].uid : i \in {k \in 1..Len(d.events) :
                              d.events[k].archived = NotArchived}}

\* EventGateway::count_events
count_events(d) ==
  Cardinality({i \in 1..Len(d.events) : d.events[i].archived = NotArchived})

\* the events update_event is given: with and without a date of archival
UpdatedEvents ==
  [id : {"e1", "e2"}, tags : { <<>>, << <<"b">> >> },
   created_by : {NoEmail, "u1@x.org"}, pos : {NoLocation},
   archived : {NotArchived, 2}]

UpdateEvent(event, treat_none_as_null) ==
  /\ \E r \in {update_event(db, event, treat_none_as_null)} :
       /\ db' = r.db
       /\ last' = [op |-> "update_event", err |-> r.err, event |-> event,
                   treat_none_as_null |-> treat_none_as_null]
  /\ UNCHANGED <<entryIndex, eventIndex, notified>>
  /\ UnchangedRace
  /\ UnchangedDup

ReadEvents(uid) ==
  /\ last' = [op |-> "read_events", err |-> get_event(db, uid), id |-> uid,
              all |-> all_events_chronologically(db),
              count |-> count_events(db)]
  /\ UnchangedButLast

NextEventUpdate ==
  \/ \E tags \in { <<>>, << <<"a">> >> } : StoreEvent(tags)
  \/ \E ids \in { <<"e1">>, <<"e2", "e1">> } : ArchiveEvents(ids, 1)
  \/ \E event \in UpdatedEvents, treat_none_as_null \in BOOLEAN :
        UpdateEvent(event, treat_none_as_null)
  \/ \E uid \in {"e1", "e2"} : ReadEvents(uid)

SpecEventUpdate == Init /\ [][NextEventUpdate]_vars

\* C33: the date of archival of an archived event is never cleared or
\* changed by a later update_event or archive_events, and an archived event
\* is not returned by get_event or all_events_chronologically and not
\* counted by count_events.
C33_ArchivedStaysArchived ==
  [][ /\ \A u \in EventUids(db) :
           EventRow(db, u).archived # NotArchived
             => /\ u \in EventUids(db')
                /\ EventRow(db', u).archived = EventRow(db, u).archived
      /\ last'.op = "read_events" =>
           /\ (last'.id \in EventUids(db)
               /\ EventRow(db, last'.id).archived # NotArchived)
                => last'.err = "NotFound"
           /\ \A u \in last'.all : EventRow(db, u).archived = NotArchived
           /\ last'.count
                = Cardinality({u \in EventUids(db) :
                                 EventRow(db, u).archived = NotArchived})
    ]_vars


\* the ids of the places a request to the revision engine addresses
AddressedIds(l) ==
  IF l.op = "review" THEN l.ids
  ELSE IF l.op = "store" THEN {l.place.id}
  ELSE IF l.op \in {"create", "update"} THEN {l.id}
  ELSE {}

\* C34: no step modifies or deletes a review row: the review rows of every
\* revision stay as a prefix of its review rows afterwards; and the
\* current_status and the review rows of every revision that is not the
\* current one of its place, and of every place the call does not address,
\* stay as they are.
C34_ReviewChainAppendOnly ==
  [][ /\ Len(db'.place_revision) >= Len(db.place_revision)
      /\ \A i \in 1..Len(db.place_revision) :
           /\ Len(reviews_of(db', i)) >= Len(reviews_of(db, i))
           /\ SubSeq(reviews_of(db', i), 1, Len(reviews_of(db, i)))
                = reviews_of(db, i)
           /\ (\/ i \notin all_current_revision_rowids(db)
               \/ db.place[db.place_revision[i].parent_rowid].id
                    \notin AddressedIds(last'))
                => /\ db'.place_revision[i] = db.place_revision[i]
                   /\ reviews_of(db', i) = reviews_of(db, i)
    ]_vars

\* the second revision of a place has been rejected while its first
\* revision, confirmed before the update, keeps its status and its two
\* review rows
C34_Witness ==
  /\ last.op = "review"
  /\ last.err = "Ok"
  /\ last.count = 1
  /\ Len(db.place_revision) = 2
  /\ db.place_revision[2].parent_rowid = db.place_revision[1].parent_rowid
  /\ db.place_revision[1].current_status = Confirmed
  /\ db.place_revision[2].current_status = Rejected
  /\ Len(reviews_of(db, 1)) = 2
  /\ Len(reviews_of(db, 2)) = 2


\* C35: when create_new_event returns an error, the call has changed
\* nothing: no event, no tag of an event, no tag and no user has been
\* created.
C35_FailedEventChangesNothing ==
  [][ (last'.op = "event" /\ last'.err # "Ok") =>
        /\ db'.events = db.events
        /\ db'.event_tags = db.event_tags
        /\ db'.tags = db.tags
        /\ db'.users = db.users
    ]_vars



(***************************************************************************)
(* Pending authorizations of updated places.  The module authorization is  *)
(* not part of the sources: the specification below takes what             *)
(* authorize_editing answers from a set of outcomes.                       *)
(***************************************************************************)
AuthorizationOutcomes ==
  {[err |-> "OwnedTag", auth_org_ids |-> {}]} \cup
  {[err |-> "Ok", auth_org_ids |-> ids] : ids \in {{}, {"org1"}, {"org1", "org2"}}}

PendingUpdateRequests ==
  [version : {RevisionNext(InitialRevision)}, tags : EngineTagInputs, now : {1, 2}]

\* prepare_updated_place, auth being the answer of authorize_editing
prepare_authorized_place(d, old, place_id, e, updated_by, auth) ==
  IF old.err # "Ok" THEN [err |-> old.err, storable |-> NoStorable]
  ELSE IF RevisionNext(old.place.revision) # e.version
  THEN [err |-> "InvalidVersion", storable |-> NoStorable]
  ELSE updated_storable(old, place_id, e, updated_by, prepare_tag_list(e.tags), auth)

UpdatePlaceAuthorized(place_id, e, updated_by, auth) ==
  /\ Idle
  /\ \E r \in {store_prepared_update(db,
                 prepare_authorized_place(db, get_place(db, place_id), place_id,
                                          e, updated_by, auth))} :
       /\ WithinBounds(r.db)
       /\ db' = r.db
       /\ last' = [op |-> "authorized", id |-> place_id, e |-> e,
                   by |-> updated_by, auth |-> auth, err |-> r.err]
  /\ UnchangedRace
  /\ UnchangedDup
  /\ UnchangedIndex

NextPending ==
  \/ \E e \in NewPlaceRequests(EngineTagInputs) : CreatePlace(e)
  \/ \E id \in PlaceIds, st \in ReviewStatuses, log \in ActivityLogs :
        ReviewPlaces({id}, st, log)
  \/ \E id \in PlaceIds, e \in PendingUpdateRequests, auth \in AuthorizationOutcomes :
        UpdatePlaceAuthorized(id, e, "u1@x.org", auth)

SpecPending == Init /\ [][NextPending]_vars

\* C36: a stored update writes a pending-authorization row exactly when
\* some organization has to authorize the change of the tags; the row
\* carries the id of the place, the time of creation of the new revision
\* and, as last authorized revision, the revision N the place had before
\* together with its review status; the revision N+1 is stored whether or
\* not a row is written.
C36_PendingAuthorizationRow ==
  [][ (last'.op = "authorized" /\ last'.err = "Ok") =>
        /\ get_place(db', last'.id).err = "Ok"
        /\ get_place(db', last'.id).place.revision =
             get_place(db, last'.id).place.revision + 1
        /\ get_place(db', last'.id).place.status = Created
        /\ IF last'.auth.auth_org_ids # {}
           THEN db'.pending_authorizations =
                  Append(db.pending_authorizations,
                         [org_ids |-> last'.auth.auth_org_ids,
                          place_id |-> last'.id,
                          created_at |-> last'.e.now,
                          last_authorized |->
                            [revision |-> get_place(db, last'.id).place.revision,
                             review_status |-> get_place(db, last'.id).place.status]])
           ELSE db'.pending_authorizations = db.pending_authorizations
    ]_vars

\* the update of a confirmed place has been stored with a pending
\* authorization that names the confirmed revision
C36_Witness ==
  /\ last.op = "authorized"
  /\ last.err = "Ok"
  /\ last.auth.auth_org_ids = {"org1"}
  /\ Len(db.pending_authorizations) = 1
  /\ db.pending_authorizations[1].last_authorized =
       [revision |-> InitialRevision, review_status |-> Confirmed]
  /\ db.pending_authorizations[1].created_at = 2
  /\ get_place(db, last.id).place.revision = RevisionNext(InitialRevision)



(***************************************************************************)
(* Failure of subscribe_to_bbox (specification SpecSubscribe): the INSERT  *)
(* of create_bbox_subscription is a statement of the database that either  *)
(* executes or returns an error; its outcome is an input of the call.      *)
(***************************************************************************)
\* Db::create_bbox_subscription, executed telling whether the INSERT
\* statement has been executed or has returned an error
insert_bbox_subscription(d, new, executed) ==
  IF resolve_user_created_by_email(d, new.user_email) = 0 THEN Result("NotFound", d)
  ELSE IF ~executed THEN Result("Other", d)
  ELSE create_bbox_subscription(d, new)

\* usecases::subscribe_to_bbox with the outcome of the INSERT
subscribe_to_bbox_stored(d, user_email, bbox, new_id, executed) ==
  IF ~validate_bbox(bbox) THEN Result("Bbox", d)
  ELSE insert_bbox_subscription(
         delete_bbox_subscriptions_by_email(d, user_email),
         [id |-> new_id, user_email |-> user_email, bbox |-> bbox], executed)

\* POST /subscribe-to-bbox
SubscribeStored(email, bbox, executed) ==
  /\ \E r \in {subscribe_to_bbox_stored(db, email, bbox, FreshSubscriptionId(db),
                                        executed)} :
       /\ db' = r.db
       /\ last' = [op |-> "subscribe", email |-> email, bbox |-> bbox,
                   executed |-> executed, err |-> r.err]
  /\ UNCHANGED <<entryIndex, eventIndex, notified>>
  /\ UnchangedRace
  /\ UnchangedDup

NextSubscribe ==
  \/ \E email \in Accounts : CreateUser(email)
  \/ \E email \in Accounts \cup {"ghost@x.org"}, bbox \in SubscriptionBboxes,
        executed \in BOOLEAN :
        SubscribeStored(email, bbox, executed)

SpecSubscribe == Init /\ [][NextSubscribe]_vars

\* C37: a subscribe_to_bbox that fails, because the bbox is not valid or
\* because the new subscription could not be stored, leaves the stored
\* subscriptions of the user as they were.
C37_FailedSubscribeKeepsSubscriptions ==
  [][ (last'.op = "subscribe" /\ last'.err # "Ok") =>
        get_bbox_subscriptions(db', last'.email) =
          get_bbox_subscriptions(db, last'.email)
    ]_vars



(***************************************************************************)
(* fix-event-address-location (specification SpecLocations): events with   *)
(* and without a position and an address are stored and archived, and the  *)
(* command geocodes the addresses of the stored events.                    *)
(***************************************************************************)
\* GeoCodingGateway::resolve_address_lat_lng: what the geocoder answers for
\* the addresses of the model; NoLocation stands for None
resolve_address_lat_lng(addr) ==
  CASE addr = "found"   -> [lat |-> 5, lng |-> 5]
    [] addr = "nowhere" -> [lat |-> 91, lng |-> 0]
    [] OTHER            -> NoLocation

\* MapPoint::try_from_lat_lng_deg followed by MapPoint::is_valid; NoLocation
\* stands for a position that is refused
try_from_lat_lng_deg(p) ==
  IF /\ p.lat >= -90 /\ p.lat <= 90
     /\ p.lng >= -180 /\ p.lng <= 180
  THEN p ELSE NoLocation

\* the event of a row of the events table, as the repository loads it
loaded_event(d, row) ==
  [id |-> row.uid,
   tags |-> [i \in 1..Len(SelectSeq(d.event_tags, LAMBDA r : r.event_id = row.id)) |->
               SelectSeq(d.event_tags, LAMBDA r : r.event_id = row.id)[i].tag],
   created_by |-> IF row.created_by = 0 THEN NoEmail
                  ELSE d.users[row.created_by].email,
   pos |-> row.pos, address |-> row.address, archived |-> row.archived]

\* EventGateway::all_events_chronologically, as the events it returns
loaded_events(d) ==
  SelectSeq([i \in 1..Len(d.events) |-> loaded_event(d, d.events[i])],
            LAMBDA e : e.archived = NotArchived)

\* the body of the loop of update_event_locations: the event is handed to
\* update_event as it was loaded, the outcome of the update is only logged
update_event_location(d, e, treat_none_as_null) ==
  IF e.pos = NoLocation \/ e.address = NoAddress THEN d
  ELSE IF resolve_address_lat_lng(e.address) = NoLocation THEN d
  ELSE IF try_from_lat_lng_deg(resolve_address_lat_lng(e.address)) = NoLocation
  THEN d
  ELSE update_event(d, e, treat_none_as_null).db

RECURSIVE update_event_locations_loop(_, _, _)
update_event_locations_loop(d, events, treat_none_as_null) ==
  IF events = <<>> THEN d
  ELSE update_event_locations_loop(
         update_event_location(d, Head(events), treat_none_as_null),
         Tail(events), treat_none_as_null)

\* cli::update_event_locations
update_event_locations(d, treat_none_as_null) ==
  Result("Ok", update_event_locations_loop(d, loaded_events(d), treat_none_as_null))

EventPositions == {NoLocation, [lat |-> 1, lng |-> 1]}

EventAddresses == {NoAddress, "found", "nowhere", "unknown"}

StoreLocatedEvent(pos, address) ==
  /\ Len(db.events) < MaxStoredEvents
  /\ \E r \in {create_event(db, [id |-> NewEventId(db), tags |-> <<>>,
                                 created_by |-> "u1@x.org", pos |-> pos,
                                 address |-> address])} :
       /\ db' = r.db
       /\ last' = [op |-> "store_event", err |-> r.err]
  /\ UNCHANGED <<entryIndex, eventIndex, notified>>
  /\ UnchangedRace
  /\ UnchangedDup

UpdateEventLocations(treat_none_as_null) ==
  /\ \E r \in {update_event_locations(db, treat_none_as_null)} :
       /\ db' = r.db
       /\ last' = [op |-> "locations", err |-> r.err,
                   treat_none_as_null |-> treat_none_as_null]
  /\ UNCHANGED <<entryIndex, eventIndex, notified>>
  /\ UnchangedRace
  /\ UnchangedDup

NextLocations ==
  \/ \E pos \in EventPositions, address \in EventAddresses :
        StoreLocatedEvent(pos, address)
  \/ \E ids \in { <<"e1">>, <<"e2">> } : ArchiveEvents(ids, 1)
  \/ \E treat_none_as_null \in BOOLEAN : UpdateEventLocations(treat_none_as_null)

SpecLocations == Init /\ [][NextLocations]_vars

\* the address of the row is resolved by the geocoder to a valid position
Resolvable(row) ==
  /\ row.pos # NoLocation
  /\ row.address # NoAddress
  /\ try_from_lat_lng_deg(resolve_address_lat_lng(row.address)) # NoLocation

\* C38: after update_event_locations every event that is not archived and
\* whose address the geocoder resolves to a valid position has this
\* position stored, and every other event is as it was before.
C38_LocationsFixed ==
  [][ last'.op = "locations" =>
        /\ Len(db'.events) = Len(db.events)
        /\ \A i \in 1..Len(db.events) :
             IF db.events[i].archived = NotArchived /\ Resolvable(db.events[i])
             THEN db'.events[i].pos =
                    resolve_address_lat_lng(db.events[i].address)
             ELSE db'.events[i] = db.events[i]
    ]_vars

====
